---- MODULE Spec2Model ----
(***************************************************************************)
(* Per-user vector document store (src/rag_system.py, class RAGSystem) and *)
(* its tool dispatcher (src/rag_tool_executor.py, class RAGToolExecutor).  *)
(*                                                                         *)
(* One RAGSystem instance is the record `rag`; the directory user_memory/  *)
(* is `disk`.  Every public method is an operator from (instance, disk,    *)
(* arguments) to (instance, disk, return value) and an action applies it.  *)
(* A Python dict is a sequence of entries in insertion order, a doc_id     *)
(* "doc_<n>" is the number n, an embedding is an integer vector of fixed   *)
(* norm, and a faiss index is its trained flag and its list of vectors.    *)
(*                                                                         *)
(* The working-memory window (src/simple_qa_chatbot.py, class              *)
(* SimpleQAChatBot) is the record `bot`, its session files are `files`,    *)
(* and its background RAGChatBot (src/rag_chat_example.py) works on `rag`. *)
(***************************************************************************)
EXTENDS Integers, Sequences, FiniteSets, TLC

\* ---------------------------------------------------------------- bounds
\* add_document calls in one behaviour of Spec (two users, restarts).
MaxAdds == 2
\* add_document calls in one behaviour of SpecOneUser and SpecTwin.
MaxCorpus == 4
\* Largest top_k a search is called with.
MaxTopK == 2
\* chat calls in one behaviour of SpecChat.
MaxChats == 4
\* Largest max_history_length (N) a window of SpecChat is configured with.
MaxN == 2
\* chat calls in one behaviour of SpecFresh.
MaxTurns == 7
\* consolidation calls in one behaviour of SpecChat and SpecFresh.
MaxForwards == 4
\* add_document calls made by name through execute_tool (SpecDispatch)
MaxToolAdds == 1
\* exchanges a RAGChatBot's conversation_history holds (SpecAssistant)
MaxExchanges == 3
\* tools one reply of the language model invokes (SpecAssistant)
MaxToolCalls == 2
\* writes the session file refuses beyond what was stored (SpecSession)
MaxFailedWrites == 1

\* ------------------------------------------------------ program constants
\* Number of documents at which a clustered index is trained: the literal
\* 100 of add_document, update_document and _rebuild_index_without_document
\* (and nlist of _create_index), scaled down to 3 so that a corpus of
\* MaxCorpus documents crosses it.
TrainThreshold == 3
\* Embedding dimension recorded in every snapshot.
Dimension == 384
\* Inner product of a unit-norm vector with itself, times Scale.
Scale == 25
\* Default of SimpleQAChatBot.__init__(max_history_length=3).
DefaultHistoryLength == 3
\* top_k of the searches that retrieve documents for a user message
RetrieveTopK == 5

None == "None"
Users == {"A", "B"}
\* the user the chatbot and its background RAGChatBot were constructed for
BotUser == "A"
Texts == {"t1", "t2", "t3"}
\* the texts the two users of Spec store (queries range over all of Texts)
TextsOfSpec == {"t1", "t2"}
\* metadata values a caller passes; None stands for an omitted argument
MetaArgs == {None, "m1"}
IndexTypes == {"flat", "ivf", "hnsw"}

\* model.encode([text], normalize_embeddings=True): a deterministic map from
\* text to a vector of fixed norm (here norm^2 = Scale).
encode(text) ==
  CASE text = "t1" -> <<5, 0>>
    [] text = "t2" -> <<4, 3>>
    [] text = "t3" -> <<0, 5>>

\* np.dot / IndexFlatIP score of two embeddings
InnerProduct(v, w) == v[1] * w[1] + v[2] * w[2]

\* ------------------------------------------------------------ dict helpers
\* A dict is the sequence of its entries [k |-> key, v |-> value] in
\* insertion order.
\* list(d.keys()), list(d.values())
Keys(dict) == [i \in 1..Len(dict) |-> dict[i].k]
Values(dict) == [i \in 1..Len(dict) |-> dict[i].v]
KeySet(dict) == {dict[i].k : i \in 1..Len(dict)}

\* d[key] for an existing key
DictGet(dict, key) == dict[CHOOSE i \in 1..Len(dict) : dict[i].k = key].v

\* list(d.keys()).index(key): 0-based position of an existing key
IndexOf(dict, key) == (CHOOSE i \in 1..Len(dict) : dict[i].k = key) - 1

\* d[key] = value: an existing key keeps its position, a new key goes last
DictSet(dict, key, value) ==
  IF key \in KeySet(dict)
    THEN [i \in 1..Len(dict) |->
            IF dict[i].k = key THEN [k |-> key, v |-> value] ELSE dict[i]]
    ELSE Append(dict, [k |-> key, v |-> value])

\* del d[key]
DictDel(dict, key) == SelectSeq(dict, LAMBDA e : e.k # key)

\* doc_list.pop(position) with a 0-based position
Pop(list, position) ==
  [i \in 1..(Len(list) - 1) |-> IF i <= position THEN list[i] ELSE list[i + 1]]

\* embeddings of a list of texts, in list order
EncodeAll(texts) == [i \in 1..Len(texts) |-> encode(texts[i])]

\* ------------------------------------------------------------------ index
\* RAGSystem._create_index: an empty index; only the clustered one needs
\* training before vectors can be added
_create_index(index_type) ==
  [is_trained |-> index_type # "ivf", vecs |-> <<>>]

\* RAGSystem.__init__
NewRAGSystem(index_type) ==
  [index_type |-> index_type,
   current_user_id |-> None,
   documents |-> <<>>,
   metadata |-> <<>>,
   doc_counter |-> 0,
   index |-> _create_index(index_type),
   db_path |-> None]

\* ------------------------------------------------------------- persistence
NoSnapshot ==
  [index_type |-> "flat", dimension |-> Dimension, documents |-> <<>>,
   metadata |-> <<>>, doc_counter |-> 0, index_data |-> _create_index("flat")]
\* A snapshot file and what the file system lets a process do with it:
\* `readable` is whether open(db_path, 'rb') and pickle.load succeed,
\* `write` is what open(db_path, 'wb') and pickle.dump do: "ok", "denied"
\* (open raises, the file stays as it is) or "short" (open truncates the
\* file, then pickle.dump raises and leaves a file that cannot be read).
WriteModes == {"ok", "denied", "short"}
\* The documents-only export documents_only_<user_id>.pkl of a user
\* directory: absent, or a pickled copy of a documents dict
NoExport == [exists |-> FALSE, readable |-> TRUE, documents |-> <<>>]
NoFile == [exists |-> FALSE, readable |-> TRUE, write |-> "ok",
           db_data |-> NoSnapshot, documents_only |-> NoExport]

\* RAGSystem.save_database: the whole instance is written to db_path;
\* ValueError without a db_path, OSError when the write fails
save_database(s, d) ==
  IF s.db_path = None
    THEN [rag |-> s, disk |-> d, raised |-> TRUE, exc |-> "ValueError"]
  ELSE IF d[s.db_path].write = "denied"
    THEN [rag |-> s, disk |-> d, raised |-> TRUE, exc |-> "OSError"]
  ELSE IF d[s.db_path].write = "short"
    THEN [rag |-> s,
          disk |-> [d EXCEPT ![s.db_path].exists = TRUE,
                             ![s.db_path].readable = FALSE],
          raised |-> TRUE, exc |-> "OSError"]
  ELSE [rag |-> s,
        disk |-> [d EXCEPT ![s.db_path].exists = TRUE,
                           ![s.db_path].readable = TRUE,
                           ![s.db_path].db_data =
                              [index_type |-> s.index_type,
                               dimension |-> Dimension,
                               documents |-> s.documents,
                               metadata |-> s.metadata,
                               doc_counter |-> s.doc_counter,
                               index_data |-> s.index]],
        raised |-> FALSE, exc |-> None]

\* RAGSystem.load_database: False when the user has no snapshot file, and
\* False with the instance as it was when reading the file raises (the
\* except clause around open and pickle.load)
load_database(s, d, user_id) ==
  IF ~d[user_id].exists
    THEN [rag |-> s, ret |-> FALSE]
  ELSE IF ~d[user_id].readable
    THEN [rag |-> s, ret |-> FALSE]
    ELSE [rag |-> [index_type |-> d[user_id].db_data.index_type,
                   current_user_id |-> user_id,
                   documents |-> d[user_id].db_data.documents,
                   metadata |-> d[user_id].db_data.metadata,
                   doc_counter |-> d[user_id].db_data.doc_counter,
                   index |-> d[user_id].db_data.index_data,
                   db_path |-> user_id],
          ret |-> TRUE]

\* RAGSystem._ensure_user_database: keep, load, or create empty
_ensure_user_database(s, d, user_id) ==
  IF s.current_user_id = user_id THEN s
  ELSE IF load_database(s, d, user_id).ret THEN load_database(s, d, user_id).rag
  ELSE [s EXCEPT !.documents = <<>>,
                 !.metadata = <<>>,
                 !.doc_counter = 0,
                 !.index = _create_index(s.index_type),
                 !.db_path = user_id,
                 !.current_user_id = user_id]

\* RAGSystem.save_documents_only(user_id) with the default file_path, on
\* the instance s0 after its _ensure_user_database: a copy of
\* self.documents is pickled into the user's export file, whose path is
\* returned (a path is written as the user_id of its directory); the write
\* succeeds or fails as a write of the snapshot would
save_documents_only(s0, d, user_id) ==
  IF d[user_id].write = "denied"
    THEN [rag |-> s0, disk |-> d, raised |-> TRUE, ret |-> None]
  ELSE IF d[user_id].write = "short"
    THEN [rag |-> s0,
          disk |-> [d EXCEPT ![user_id].documents_only.exists = TRUE,
                             ![user_id].documents_only.readable = FALSE],
          raised |-> TRUE, ret |-> None]
  ELSE [rag |-> s0,
        disk |-> [d EXCEPT ![user_id].documents_only =
                    [exists |-> TRUE, readable |-> TRUE,
                     documents |-> s0.documents]],
        raised |-> FALSE, ret |-> user_id]

\* RAGSystem.load_documents_only(file_path): the dict of the file, or None
\* when there is no such file or reading it raises
load_documents_only(d, file_path) ==
  IF /\ file_path \in DOMAIN d
     /\ d[file_path].documents_only.exists
     /\ d[file_path].documents_only.readable
    THEN [is_none |-> FALSE, documents |-> d[file_path].documents_only.documents]
    ELSE [is_none |-> TRUE, documents |-> <<>>]

\* ------------------------------------------------------- index maintenance
\* _rebuild_index_without_document without its `len(doc_list) >= 100`
\* condition: a clustered index is trained on whatever texts are left
_rebuild_index_trains_any(s, exclude_position) ==
  LET all == Values(s.documents)
      doc_list == IF exclude_position < Len(all)
                    THEN Pop(all, exclude_position) ELSE all
  IN  IF doc_list = <<>>
        THEN [s EXCEPT !.index = _create_index(s.index_type)]
        ELSE [s EXCEPT !.index = [is_trained |-> TRUE,
                                  vecs |-> EncodeAll(doc_list)]]

\* RAGSystem._rebuild_index_without_document: a fresh index over the texts
\* of self.documents with the entry at exclude_position (0-based) popped
\* when that position exists
_rebuild_index_without_document(s, exclude_position) ==
  LET fresh == _create_index(s.index_type)
      all == Values(s.documents)
      doc_list == IF exclude_position < Len(all)
                    THEN Pop(all, exclude_position) ELSE all
      embeddings == EncodeAll(doc_list)
      trained == IF s.index_type = "ivf" /\ Len(doc_list) >= TrainThreshold
                   THEN TRUE ELSE fresh.is_trained
  IN  IF doc_list = <<>>
        THEN [s EXCEPT !.index = fresh]
        ELSE [s EXCEPT !.index =
                [is_trained |-> trained,
                 vecs |-> IF s.index_type # "ivf" \/ trained
                            THEN embeddings ELSE <<>>]]

\* RAGSystem._retrain_ivf_index: train a fresh index on all documents and
\* add them in iteration order
_retrain_ivf_index(s) ==
  IF s.documents = <<>>
    THEN s
    ELSE [s EXCEPT !.index = [is_trained |-> TRUE,
                              vecs |-> EncodeAll(Values(s.documents))]]

\* ------------------------------------------------------------------- CRUD
\* add_document after its call of _ensure_user_database, on the instance s0
\* as it is then: the rest of the method reads and writes self only, user_id
\* is not used again
add_loaded(s0, d, document, metadata) ==
  LET doc_id == s0.doc_counter
      s1 == [s0 EXCEPT !.doc_counter = doc_id + 1,
                       !.documents = DictSet(s0.documents, doc_id, document),
                       !.metadata = DictSet(s0.metadata, doc_id,
                                      IF metadata = None THEN "empty" ELSE metadata)]
      embedding == encode(document)
  IN  IF s1.index_type = "ivf" /\ ~s1.index.is_trained
        THEN IF Len(s1.documents) >= TrainThreshold
               THEN LET s2 == [s1 EXCEPT !.index =
                                 [is_trained |-> TRUE,
                                  vecs |-> EncodeAll(Values(s1.documents))]]
                        w == save_database(s2, d)
                    IN  [rag |-> w.rag, disk |-> w.disk, ret |-> doc_id,
                         raised |-> w.raised]
               ELSE [rag |-> s1, disk |-> d, ret |-> doc_id,
                     raised |-> FALSE]
        ELSE LET s2 == [s1 EXCEPT !.index.vecs = Append(@, embedding)]
                 w == save_database(s2, d)
             IN  [rag |-> w.rag, disk |-> w.disk, ret |-> doc_id,
                  raised |-> w.raised]

\* RAGSystem.add_document: returns the new doc_id; an untrained clustered
\* index below the threshold returns before save_database
add_document(s, d, user_id, document, metadata) ==
  add_loaded(_ensure_user_database(s, d, user_id), d, document, metadata)

\* The rest of an add_document(user_id, ...) call that would look its user
\* up again before it stores the document
add_resumed_reloading(s, d, user_id, document, metadata) ==
  add_document(s, d, user_id, document, metadata)

\* The rest of an add_document(user_id, ...) call that was suspended right
\* after its _ensure_user_database(user_id), resumed on the instance s as
\* it is now
add_resumed(s, d, user_id, document, metadata) ==
  add_loaded(s, d, document, metadata)

\* update_document storing the new text with `del self.documents[doc_id]`
\* before the assignment, and a metadata dict in every case
update_existing_reinserting(s0, d, doc_id, new_document, new_metadata) ==
  LET doc_position == IndexOf(s0.documents, doc_id)
      s1 == _rebuild_index_without_document(s0, doc_position)
      s2 == [s1 EXCEPT
               !.documents = DictSet(DictDel(s1.documents, doc_id), doc_id,
                                     new_document),
               !.metadata = DictSet(s1.metadata, doc_id,
                              IF new_metadata # None THEN new_metadata
                                                     ELSE "empty")]
      embedding == encode(new_document)
      s3 == IF s2.index_type = "ivf" /\ ~s2.index.is_trained
              THEN IF Len(s2.documents) >= TrainThreshold
                     THEN _retrain_ivf_index(s2) ELSE s2
              ELSE [s2 EXCEPT !.index.vecs = Append(@, embedding)]
      w == save_database(s3, d)
  IN  [rag |-> w.rag, disk |-> w.disk, ret |-> TRUE, raised |-> w.raised]

\* update_document from "Get the index position" to save_database, on the
\* instance s0 that holds doc_id
update_existing(s0, d, doc_id, new_document, new_metadata) ==
  LET doc_position == IndexOf(s0.documents, doc_id)
      s1 == _rebuild_index_without_document(s0, doc_position)
      s2 == [s1 EXCEPT
               !.documents = DictSet(s1.documents, doc_id, new_document),
               !.metadata = IF new_metadata # None
                              THEN DictSet(s1.metadata, doc_id, new_metadata)
                              ELSE s1.metadata]
      embedding == encode(new_document)
      s3 == IF s2.index_type = "ivf" /\ ~s2.index.is_trained
              THEN IF Len(s2.documents) >= TrainThreshold
                     THEN _retrain_ivf_index(s2) ELSE s2
              ELSE [s2 EXCEPT !.index.vecs = Append(@, embedding)]
      w == save_database(s3, d)
  IN  [rag |-> w.rag, disk |-> w.disk, ret |-> TRUE, raised |-> w.raised]

\* update_document without its `doc_id not in self.documents` guard:
\* doc_ids.index(doc_id) raises ValueError for an absent doc_id
update_document_unguarded(s, d, user_id, doc_id, new_document, new_metadata) ==
  LET s0 == _ensure_user_database(s, d, user_id)
  IN  IF doc_id \notin KeySet(s0.documents)
        THEN [rag |-> s0, disk |-> d, ret |-> FALSE, raised |-> TRUE]
        ELSE update_existing(s0, d, doc_id, new_document, new_metadata)

\* RAGSystem.update_document: False for an absent doc_id; otherwise rebuild
\* without the document's position, store the new text, append its vector
update_document(s, d, user_id, doc_id, new_document, new_metadata) ==
  LET s0 == _ensure_user_database(s, d, user_id)
  IN  IF doc_id \notin KeySet(s0.documents)
        THEN [rag |-> s0, disk |-> d, ret |-> FALSE, raised |-> FALSE]
        ELSE update_existing(s0, d, doc_id, new_document, new_metadata)

\* delete_document from "Get the index position" to the rebuild, on the
\* instance s0 that holds doc_id: the entry is removed first, then the
\* rebuild excludes the position it had
delete_existing(s0, doc_id) ==
  LET doc_position == IndexOf(s0.documents, doc_id)
      s1 == [s0 EXCEPT !.documents = DictDel(s0.documents, doc_id),
                       !.metadata = DictDel(s0.metadata, doc_id)]
  IN  _rebuild_index_without_document(s1, doc_position)

\* delete_document without its save_database call
delete_document_unsaved(s, d, user_id, doc_id) ==
  LET s0 == _ensure_user_database(s, d, user_id)
  IN  IF doc_id \notin KeySet(s0.documents)
        THEN [rag |-> s0, disk |-> d, ret |-> FALSE, raised |-> FALSE]
        ELSE [rag |-> delete_existing(s0, doc_id), disk |-> d,
              ret |-> TRUE, raised |-> FALSE]

\* RAGSystem.delete_document: False for an absent doc_id; otherwise remove,
\* rebuild, save
delete_document(s, d, user_id, doc_id) ==
  LET s0 == _ensure_user_database(s, d, user_id)
  IN  IF doc_id \notin KeySet(s0.documents)
        THEN [rag |-> s0, disk |-> d, ret |-> FALSE, raised |-> FALSE]
        ELSE LET w == save_database(delete_existing(s0, doc_id), d)
             IN  [rag |-> w.rag, disk |-> w.disk, ret |-> TRUE, raised |-> w.raised]

\* ----------------------------------------------------------------- search
Min(a, b) == IF a < b THEN a ELSE b
Range(f) == {f[i] : i \in DOMAIN f}

\* The rankings a top-n selection may return over the candidate positions:
\* n best candidates in descending score; equal scores come in any order
\* (the order of ties is left to faiss / numpy).
TopRankings(candidates, score, n) ==
  {r \in [1..Min(n, Cardinality(candidates)) -> candidates] :
     /\ \A i, j \in DOMAIN r : i < j => r[i] # r[j] /\ score[r[i]] >= score[r[j]]
     /\ \A x \in candidates \ Range(r) : \A i \in DOMAIN r : score[r[i]] >= score[x]}

\* Positions an index.search call examines: every vector for the exact
\* index, some of them for the approximate ones (one probed cluster of a
\* trained clustered index; the visited part of the graph for hnsw).
Examined(index_type, ntotal) ==
  IF index_type = "flat" THEN {0..(ntotal - 1)}
  ELSE IF index_type = "hnsw"
    THEN {c \in SUBSET (0..(ntotal - 1)) : c = {} => ntotal = 0}
  ELSE SUBSET (0..(ntotal - 1))

\* The loop of RAGSystem.search that turns (idx, score) pairs into result
\* tuples, skipping positions outside list(self.documents.keys())
Results(s, top_indices, score) ==
  LET valid == SelectSeq(top_indices, LAMBDA idx : idx >= 0 /\ idx < Len(s.documents))
  IN  [i \in 1..Len(valid) |->
         [doc_id |-> s.documents[valid[i] + 1].k,
          document |-> s.documents[valid[i] + 1].v,
          score |-> score[valid[i]],
          metadata |-> DictGet(s.metadata, s.documents[valid[i] + 1].k)]]

\* RAGSystem.search: the set of result lists the call may return (its only
\* effect on the instance is that of _ensure_user_database)
search(s, d, user_id, query, top_k) ==
  LET s0 == _ensure_user_database(s, d, user_id)
      query_embedding == encode(query)
      n == Len(s0.documents)
      \* linear fallback over the documents themselves
      similarities == [i \in 0..(n - 1) |->
                         InnerProduct(encode(s0.documents[i + 1].v), query_embedding)]
      \* index.search over the vectors the index holds
      ntotal == Len(s0.index.vecs)
      scores == [i \in 0..(ntotal - 1) |->
                   InnerProduct(s0.index.vecs[i + 1], query_embedding)]
  IN  IF n = 0 THEN {<<>>}
      ELSE IF s0.index_type = "ivf" /\ ~s0.index.is_trained
        THEN {Results(s0, r, similarities) :
                r \in TopRankings(0..(n - 1), similarities, top_k)}
        ELSE UNION {{Results(s0, r, scores) :
                       r \in TopRankings(c, scores, Min(top_k, n))} :
                    c \in Examined(s0.index_type, ntotal)}

\* RAGSystem.get_stats: the dict it returns (its only effect on the instance
\* is that of _ensure_user_database)
get_stats(s, d, user_id) ==
  LET s0 == _ensure_user_database(s, d, user_id)
  IN  [user_id |-> user_id,
       num_documents |-> Len(s0.documents),
       index_type |-> s0.index_type,
       dimension |-> Dimension,
       is_trained |-> s0.index.is_trained]

\* ------------------------------------------------------------- dispatcher
\* RAGToolExecutor.execute_tool around a tool function that returned `data`
\* or raised: the uniform envelope
execute_tool(raised, data) ==
  IF raised
    THEN [success |-> FALSE, error |-> "str(e)", data |-> None]
    ELSE [success |-> TRUE, error |-> None, data |-> data]

\* RAGToolExecutor._update_document: the flag of the data dict
_update_document(success) == IF success THEN "updated=True" ELSE "updated=False"

\* RAGToolExecutor._delete_document: the flag of the data dict
_delete_document(success) == IF success THEN "deleted=True" ELSE "deleted=False"

\* The names execute_tool maps to tool functions
tool_map ==
  {"add_document", "search_documents", "update_document", "delete_document",
   "save_database", "load_database", "get_database_stats", "list_users",
   "get_user_directory_info", "save_documents_only", "load_documents_only"}

\* The parameters of a tool function that have no default value
Required(tool_name) ==
  CASE tool_name = "add_document" -> {"user_id", "document"}
    [] tool_name = "search_documents" -> {"user_id", "query"}
    [] tool_name = "update_document" -> {"user_id", "doc_id", "new_document"}
    [] tool_name = "delete_document" -> {"user_id", "doc_id"}
    [] tool_name = "save_database" -> {}
    [] tool_name = "load_database" -> {"user_id"}
    [] tool_name = "get_database_stats" -> {"user_id"}
    [] tool_name = "list_users" -> {}
    [] tool_name = "get_user_directory_info" -> {"user_id"}
    [] tool_name = "save_documents_only" -> {"user_id"}
    [] tool_name = "load_documents_only" -> {"file_path"}

\* The parameters of a tool function that have a default value
Defaulted(tool_name) ==
  CASE tool_name = "add_document" -> {"metadata"}
    [] tool_name = "search_documents" -> {"top_k"}
    [] tool_name = "update_document" -> {"new_metadata"}
    [] tool_name = "save_documents_only" -> {"file_path"}
    [] OTHER -> {}

\* tool_map[tool_name](**arguments) binds: every parameter without a
\* default is given and no other keyword is; otherwise the call raises
\* TypeError before the tool function runs
Binds(tool_name, arguments) ==
  /\ Required(tool_name) \subseteq DOMAIN arguments
  /\ DOMAIN arguments \subseteq Required(tool_name) \cup Defaulted(tool_name)

\* arguments.get(name, default)
ArgOr(arguments, name, default) ==
  IF name \in DOMAIN arguments THEN arguments[name] ELSE default

\* What the dispatcher sees of a tool function: the instance and the
\* snapshots after it, whether it raised (and which exception) and the data
\* dict it returned.  r is the RAGSystem call the tool function made; after
\* _ensure_user_database only a failed write makes one raise.
ToolResult(r, data) ==
  [rag |-> r.rag, disk |-> r.disk, raised |-> r.raised,
   exc |-> IF r.raised THEN "OSError" ELSE None, data |-> data]

\* RAGToolExecutor._add_document around r = add_document(...)
AddTool(r, user_id) == ToolResult(r, [doc_id |-> r.ret, user_id |-> user_id])

\* RAGToolExecutor._update_document around r = update_document(...)
UpdateTool(r) == ToolResult(r, _update_document(r.ret))

\* RAGToolExecutor._delete_document around r = delete_document(...)
DeleteTool(r) == ToolResult(r, _delete_document(r.ret))

\* RAGToolExecutor._save_database around w = save_database(): ValueError is
\* caught and reported as saved=False, any other exception goes on
SaveTool(w) ==
  [rag |-> w.rag, disk |-> w.disk,
   raised |-> w.raised /\ w.exc # "ValueError",
   exc |-> IF w.exc = "ValueError" THEN None ELSE w.exc,
   data |-> [saved |-> ~w.raised]]

\* RAGToolExecutor._load_database around l = load_database(user_id): the
\* stats are read only after a successful load
LoadTool(l, d, user_id) ==
  [rag |-> l.rag, disk |-> d, raised |-> FALSE, exc |-> None,
   data |-> IF l.ret THEN [loaded |-> TRUE, stats |-> get_stats(l.rag, d, user_id)]
                     ELSE [loaded |-> FALSE]]

\* A tool function that reads: s0 is the instance after the call
ReadTool(s0, d, data) ==
  [rag |-> s0, disk |-> d, raised |-> FALSE, exc |-> None, data |-> data]

\* RAGToolExecutor._save_documents_only around
\* w = save_documents_only(user_id)
SaveDocumentsTool(w, user_id) ==
  [rag |-> w.rag, disk |-> w.disk, raised |-> w.raised,
   exc |-> IF w.raised THEN "OSError" ELSE None,
   data |-> [user_id |-> user_id, file_path |-> w.ret, saved |-> TRUE]]

\* RAGToolExecutor._load_documents_only around
\* documents = load_documents_only(file_path): `if documents:` takes the
\* else branch for None and for a dict without entries
_load_documents_only(documents, file_path) ==
  IF ~documents.is_none /\ documents.documents # <<>>
    THEN [file_path |-> file_path, loaded |-> TRUE,
          num_documents |-> Len(documents.documents),
          document_ids |-> Keys(documents.documents),
          documents |-> documents.documents]
    ELSE [file_path |-> file_path, loaded |-> FALSE]

\* tool_map[tool_name](**arguments) once the arguments are bound.  The
\* result list of a search is search(s, d, user_id, query, top_k) and is
\* left out of the data; the listing tools read directory names only.
CallTool(s, d, tool_name, arguments) ==
  CASE tool_name = "add_document" ->
         AddTool(add_document(s, d, arguments.user_id, arguments.document,
                              ArgOr(arguments, "metadata", None)),
                 arguments.user_id)
    [] tool_name = "search_documents" ->
         ReadTool(_ensure_user_database(s, d, arguments.user_id), d,
                  [query |-> arguments.query, user_id |-> arguments.user_id])
    [] tool_name = "update_document" ->
         UpdateTool(update_document(s, d, arguments.user_id, arguments.doc_id,
                                    arguments.new_document,
                                    ArgOr(arguments, "new_metadata", None)))
    [] tool_name = "delete_document" ->
         DeleteTool(delete_document(s, d, arguments.user_id, arguments.doc_id))
    [] tool_name = "save_database" ->
         SaveTool(save_database(s, d))
    [] tool_name = "load_database" ->
         LoadTool(load_database(s, d, arguments.user_id), d, arguments.user_id)
    [] tool_name = "get_database_stats" ->
         ReadTool(_ensure_user_database(s, d, arguments.user_id), d,
                  [message |-> "Statistics retrieved",
                   stats |-> get_stats(s, d, arguments.user_id)])
    [] tool_name = "list_users" ->
         ReadTool(s, d, [users |-> {u \in Users : d[u].exists}])
    [] tool_name = "get_user_directory_info" ->
         ReadTool(s, d, [user_id |-> arguments.user_id])
    [] tool_name = "save_documents_only" ->
         SaveDocumentsTool(
           save_documents_only(_ensure_user_database(s, d, arguments.user_id),
                               d, arguments.user_id),
           arguments.user_id)
    [] tool_name = "load_documents_only" ->
         ReadTool(s, d,
                  _load_documents_only(load_documents_only(d, arguments.file_path),
                                       arguments.file_path))

\* The classes `except Exception` catches
Exceptions == {"TypeError", "ValueError", "OSError"}

\* Python's None where a dict may stand (the data of an envelope, the value
\* of a call that raised): written as a record, so that it can be compared
\* with a data dict
NoneData == [is_none |-> TRUE]

\* The end of execute_tool with an except clause for ValueError only
Enveloped_ValueError_only(r) ==
  [rag |-> r.rag, disk |-> r.disk,
   raised |-> r.raised /\ r.exc # "ValueError",
   envelope |-> IF r.raised /\ r.exc # "ValueError" THEN NoneData
                ELSE IF r.raised
                  THEN [execute_tool(TRUE, r.data) EXCEPT !.data = NoneData]
                  ELSE execute_tool(FALSE, r.data)]

\* The end of execute_tool: the success envelope around the data of a tool
\* function that returned, the error envelope for one that raised an
\* Exception; `raised` tells whether an exception leaves execute_tool
Enveloped(r) ==
  [rag |-> r.rag, disk |-> r.disk,
   raised |-> r.raised /\ r.exc \notin Exceptions,
   envelope |-> IF r.raised /\ r.exc \notin Exceptions THEN NoneData
                ELSE IF r.raised
                  THEN [execute_tool(TRUE, r.data) EXCEPT !.data = NoneData]
                  ELSE execute_tool(FALSE, r.data)]

\* RAGToolExecutor.execute_tool(tool_name, arguments) on the instance s:
\* the instance and the snapshots after the call, whether an exception
\* left the method, and the dict it returned
execute_tool_on(s, d, tool_name, arguments) ==
  IF tool_name \notin tool_map
    THEN [rag |-> s, disk |-> d, raised |-> FALSE,
          envelope |-> [success |-> FALSE, error |-> "Unknown tool",
                       data |-> NoneData]]
  ELSE IF ~Binds(tool_name, arguments)
    THEN Enveloped([rag |-> s, disk |-> d, raised |-> TRUE,
                    exc |-> "TypeError", data |-> NoneData])
  ELSE Enveloped(CallTool(s, d, tool_name, arguments))

\* ------------------------------------------------ working-memory window
\* (src/simple_qa_chatbot.py, classes SessionManager and SimpleQAChatBot)
\* A user message is the number of the chat call that stored it (a call
\* that raises stores nothing and is not counted); the reply to it carries
\* the same number.  A window message is [role, content],
\* a line of a session file is [role, content, timestamp].
SessionIds == {"s1"}
HistoryLengths == 1..MaxN

Max(a, b) == IF a > b THEN a ELSE b

\* seq[:n] for n >= 0
Prefix(seq, n) == SubSeq(seq, 1, Min(n, Len(seq)))

\* seq[-n:] for n >= 0 (Python: seq[-0:] is the whole list)
Suffix(seq, n) ==
  IF n = 0 THEN seq ELSE SubSeq(seq, Max(1, Len(seq) - n + 1), Len(seq))

\* list.sort(key=timestamp): stable, ascending
SortByTimestamp(messages) ==
  LET rank(j) == Cardinality({k \in 1..Len(messages) :
                    \/ messages[k].timestamp < messages[j].timestamp
                    \/ messages[k].timestamp = messages[j].timestamp /\ k <= j})
  IN  [i \in 1..Len(messages) |->
         messages[CHOOSE j \in 1..Len(messages) : rank(j) = i]]

\* SessionManager.save_exchange: two lines appended to the session file,
\* both with the timestamp of the call
save_exchange(files, session_id, user_query, api_response, timestamp) ==
  [files EXCEPT ![session_id] =
     @ \o <<[role |-> "user", content |-> user_query, timestamp |-> timestamp],
            [role |-> "assistant", content |-> api_response,
             timestamp |-> timestamp]>>]

\* SessionManager.load_session_history: the lines of the file, sorted
load_session_history(files, session_id) == SortByTimestamp(files[session_id])

\* SimpleQAChatBot.__init__ for a new session
NewSimpleQAChatBot(session_id, max_history_length, enable_background_memory) ==
  [session_id |-> session_id,
   conversation_history |-> <<>>,
   max_history_length |-> max_history_length,
   max_working_length |-> max_history_length * 2,
   enable_background_memory |-> enable_background_memory,
   message_memory_mapping |-> <<>>]

\* The calls _process_old_messages_to_background_memory makes to
\* background_rag_chatbot.chat, as [user_message, raised]: none when
\* background memory is off; otherwise one per entry, in order, up to and
\* including the first that raises (fail_at = 0: none raises).  The
\* exception leaves the loop and is swallowed.
_process_old_messages_to_background_memory(b, old_message_mappings, fail_at) ==
  IF ~b.enable_background_memory
    THEN <<>>
    ELSE [i \in 1..(IF fail_at = 0 THEN Len(old_message_mappings) ELSE fail_at) |->
            [user_message |-> old_message_mappings[i], raised |-> i = fail_at]]

\* _manage_conversation_history with `message_pairs > self.max_working_length`
\* as its condition
_manage_conversation_history_above(b, fail_at) ==
  LET message_pairs == Len(b.conversation_history) \div 2
      messages_to_keep == b.max_history_length * 2
      pairs_to_remove == message_pairs - b.max_history_length
      old_message_mappings == Prefix(b.message_memory_mapping, pairs_to_remove)
  IN  IF message_pairs > b.max_working_length
        THEN [bot |-> [b EXCEPT
                         !.conversation_history = Suffix(@, messages_to_keep),
                         !.message_memory_mapping = Suffix(@, b.max_history_length)],
              calls |-> _process_old_messages_to_background_memory(
                          b, old_message_mappings, fail_at)]
        ELSE [bot |-> b, calls |-> <<>>]

\* SimpleQAChatBot._manage_conversation_history: the bot after the check and
\* the consolidation calls the check made
_manage_conversation_history(b, fail_at) ==
  LET message_pairs == Len(b.conversation_history) \div 2
      messages_to_keep == b.max_history_length * 2
      pairs_to_remove == message_pairs - b.max_history_length
      old_message_mappings == Prefix(b.message_memory_mapping, pairs_to_remove)
  IN  IF message_pairs >= b.max_working_length
        THEN [bot |-> [b EXCEPT
                         !.conversation_history = Suffix(@, messages_to_keep),
                         !.message_memory_mapping = Suffix(@, b.max_history_length)],
              calls |-> _process_old_messages_to_background_memory(
                          b, old_message_mappings, fail_at)]
        ELSE [bot |-> b, calls |-> <<>>]

\* The entries the check of _manage_conversation_history would forward
OldMessageMappings(b) ==
  LET message_pairs == Len(b.conversation_history) \div 2
  IN  IF message_pairs >= b.max_working_length
        THEN Prefix(b.message_memory_mapping, message_pairs - b.max_history_length)
        ELSE <<>>

\* SimpleQAChatBot.chat from "Store message and retrieved docs mapping" to
\* the call of _manage_conversation_history, the same in the RAG path and in
\* simple mode: the bot and the session files before the check
chat_append(b, files, user_message) ==
  [bot |-> [b EXCEPT
              !.message_memory_mapping = Append(@, user_message),
              !.conversation_history =
                 @ \o <<[role |-> "user", content |-> user_message],
                        [role |-> "assistant", content |-> user_message]>>],
   files |-> save_exchange(files, b.session_id, user_message, user_message,
                           user_message)]

\* What one pass through "Store message and retrieved docs mapping ... Save
\* exchange to session file ... Add to conversation history" does, in the
\* RAG path (lines 596-614) and in simple mode (lines 657-675) alike:
\* "reply": the reply was obtained and everything is stored;
\* "raise": the call for the reply raised, nothing is stored;
\* "user_line": the reply was obtained, the mapping entry is appended, then
\*   save_message raises on the user line;
\* "assistant_line": the same, but the user line is written and
\*   save_message raises on the assistant line.
Attempts == {"reply", "raise", "user_line", "assistant_line"}

chat_attempt(b, files, user_message, attempt) ==
  CASE attempt = "reply" -> chat_append(b, files, user_message)
    [] attempt = "raise" -> [bot |-> b, files |-> files]
    [] attempt = "user_line" ->
         [bot |-> [b EXCEPT !.message_memory_mapping = Append(@, user_message)],
          files |-> files]
    [] attempt = "assistant_line" ->
         [bot |-> [b EXCEPT !.message_memory_mapping = Append(@, user_message)],
          files |-> [files EXCEPT ![b.session_id] =
                       Append(@, [role |-> "user", content |-> user_message,
                                  timestamp |-> user_message])]]

\* SimpleQAChatBot.chat up to its call of _manage_conversation_history:
\* the RAG path (when background memory is on) and, when an exception
\* leaves it, simple mode on what the RAG path left behind
chat_paths(b, files, user_message, first, second) ==
  IF b.enable_background_memory /\ first = "reply"
    THEN chat_attempt(b, files, user_message, first)
  ELSE IF b.enable_background_memory
    THEN chat_attempt(chat_attempt(b, files, user_message, first).bot,
                      chat_attempt(b, files, user_message, first).files,
                      user_message, second)
    ELSE chat_attempt(b, files, user_message, second)

\* SimpleQAChatBot.load_session
load_session(b, files, session_id) ==
  LET messages == load_session_history(files, session_id)
      kept == SelectSeq(messages,
                LAMBDA m : m.role \in {"user", "assistant", "tool"})
  IN  [b EXCEPT !.conversation_history =
                   [i \in 1..Len(kept) |->
                      [role |-> kept[i].role, content |-> kept[i].content]],
                !.session_id = session_id]

\* SimpleQAChatBot.clear_conversation
clear_conversation(b) == [b EXCEPT !.conversation_history = <<>>]

\* SimpleQAChatBot.set_history_length up to its call of
\* _manage_conversation_history
set_limits(b, max_history_length) ==
  [b EXCEPT !.max_history_length = max_history_length,
            !.max_working_length = max_history_length * 2]

\* SimpleQAChatBot.set_background_memory, the background chatbot constructed
set_background_memory(b, enable) == [b EXCEPT !.enable_background_memory = enable]

\* The loop of clear_background_memory: execute_tool("delete_document") for
\* each of doc_ids from the i-th on (an error envelope does not stop it)
RECURSIVE delete_each(_, _, _, _)
delete_each(s, d, doc_ids, i) ==
  IF i > Len(doc_ids)
    THEN [rag |-> s, disk |-> d]
    ELSE delete_each(
           execute_tool_on(s, d, "delete_document",
                           [user_id |-> BotUser, doc_id |-> doc_ids[i]]).rag,
           execute_tool_on(s, d, "delete_document",
                           [user_id |-> BotUser, doc_id |-> doc_ids[i]]).disk,
           doc_ids, i + 1)

\* clear_background_memory after its get_database_stats call returned
\* stats_result: the documents listed under data["document_ids"] are
\* deleted, if the data has that key; with the data None of an error
\* envelope the `in` test raises TypeError, which the method swallows
clear_listed(stats_result) ==
  IF /\ stats_result.envelope.success
     /\ "document_ids" \in DOMAIN stats_result.envelope.data
    THEN delete_each(stats_result.rag, stats_result.disk,
                     stats_result.envelope.data.document_ids, 1)
    ELSE [rag |-> stats_result.rag, disk |-> stats_result.disk]

\* SimpleQAChatBot.clear_background_memory: the store after it
clear_background_memory(b, s, d) ==
  IF ~b.enable_background_memory
    THEN [rag |-> s, disk |-> d]
    ELSE clear_listed(execute_tool_on(s, d, "get_database_stats",
                                      [user_id |-> BotUser]))

\* the text the assistant stores when a reply to user_message invokes the
\* add_document tool; also the text of the message as a search query
TextOf(user_message) == IF user_message % 2 = 1 THEN "t1" ELSE "t2"

\* RAGChatBot._build_template_context: the result lists its search for the
\* user message may put into the prompt, before the model is called
_build_template_context(s, d, user_message) ==
  search(s, d, BotUser, TextOf(user_message), RetrieveTopK)

\* SimpleQAChatBot.get_retrieved_documents: the result lists it may return
get_retrieved_documents(b, s, d, user_message) ==
  IF ~b.enable_background_memory
    THEN {<<>>}
    ELSE search(s, d, BotUser, TextOf(user_message), RetrieveTopK)


\* RAGChatBot.chat, once per entry of calls from the i-th on, as seen by the
\* store: _build_template_context looks the user up (get_database_stats,
\* search_documents) before the model is called; a call that returns and
\* whose reply invoked the add_document tool (its position is in tools)
\* stores a document.  rets are the doc_ids the adds returned.
RECURSIVE rag_chats(_, _, _, _, _)
rag_chats(s, d, calls, tools, i) ==
  IF i > Len(calls)
    THEN [rag |-> s, disk |-> d, rets |-> <<>>]
    ELSE LET s0 == _ensure_user_database(s, d, BotUser)
             r == add_document(s0, d, BotUser, TextOf(calls[i].user_message), None)
         IN  IF i \in tools /\ ~calls[i].raised
               THEN LET rest == rag_chats(r.rag, r.disk, calls, tools, i + 1)
                    IN  [rest EXCEPT !.rets = <<r.ret>> \o @]
               ELSE rag_chats(s0, d, calls, tools, i + 1)

\* user messages of a window, in window order
UserTurns(history) ==
  LET users == SelectSeq(history, LAMBDA m : m.role = "user")
  IN  [i \in 1..Len(users) |-> users[i].content]

\* --------------------------------------------------------------- assistant
\* (src/rag_chat_example.py, class RAGChatBot)
\* A message of conversation_history is [role, content, tool_calls,
\* tool_call_id]: content is the number of the user message it is or
\* answers, tool_calls the names of the tools an assistant message invokes
\* (empty when it invokes none), tool_call_id the position of the call a
\* tool message answers (0 otherwise).
Turn(role, user_message, tool_calls, tool_call_id) ==
  [role |-> role, content |-> user_message, tool_calls |-> tool_calls,
   tool_call_id |-> tool_call_id]

\* RAGChatBot.__init__
NewRAGChatBot == [conversation_history |-> <<>>]

\* The arguments the language model gives to a tool it invokes while it
\* answers user_message
ToolArguments(tool_name, user_message) ==
  IF tool_name = "add_document"
    THEN [user_id |-> BotUser, document |-> TextOf(user_message)]
    ELSE [user_id |-> BotUser, query |-> TextOf(user_message)]

\* The loop `for tool_call in message.tool_calls` of RAGChatBot.chat from
\* the i-th call on: process_tool_call runs each tool on the store
RECURSIVE process_tool_calls(_, _, _, _, _)
process_tool_calls(s, d, tool_calls, user_message, i) ==
  IF i > Len(tool_calls)
    THEN [rag |-> s, disk |-> d]
    ELSE process_tool_calls(
           execute_tool_on(s, d, tool_calls[i],
                           ToolArguments(tool_calls[i], user_message)).rag,
           execute_tool_on(s, d, tool_calls[i],
                           ToolArguments(tool_calls[i], user_message)).disk,
           tool_calls, user_message, i + 1)

\* RAGChatBot.chat(user_message): what the call appends to
\* conversation_history.  tool_calls are the tools the model's first
\* message invokes; raises is "first" when the first call of the model
\* raises (nothing appended), "final" when the call after the tools raises
\* (the tool exchange stays appended), "none" when chat returns a reply.
rag_chat(b, user_message, tool_calls, raises) ==
  IF raises = "first"
    THEN b
  ELSE IF tool_calls = <<>>
    THEN [b EXCEPT !.conversation_history =
            @ \o <<Turn("user", user_message, <<>>, 0),
                   Turn("assistant", user_message, <<>>, 0)>>]
    ELSE [b EXCEPT !.conversation_history =
            @ \o <<Turn("assistant", user_message, tool_calls, 0)>>
              \o [i \in 1..Len(tool_calls) |->
                    Turn("tool", user_message, <<>>, i)]
              \o (IF raises = "final" THEN <<>>
                  ELSE <<Turn("assistant", user_message, <<>>, 0)>>)]

\* ------------------------------------------------------------------ state
VARIABLES
  rag,      \* the RAGSystem instance
  disk,     \* user_memory/<user_id>/rag_db_<user_id>.pkl, per user
  last,     \* the call that was made last, its arguments and what it returned
  issued,   \* history: per user, the doc_ids add_document has returned, in order
  deleted,  \* history: per user, the doc_ids delete_document has removed
  adds,     \* history: number of add_document calls made so far
  ragX,     \* SpecTwin only: a second instance, exact variant, given the same calls
  diskX,    \* SpecTwin only: the directory the second instance writes to
  bot,      \* the SimpleQAChatBot instance (its background store is rag)
  files,    \* sessions/<session_id>.jsonl, per session
  turns,    \* history: number of chat calls that have returned a reply
  forwarded, \* history: the consolidation calls made so far, in order
  evicted,  \* history: the user messages a check has trimmed from the window
  call,     \* the bot operation that was made last and what it did
  threads,  \* SpecInterleaved only: per thread, the call it is suspended in
  built,    \* history: the index_type the running process gave to RAGSystem()
  assistant \* SpecAssistant only: a RAGChatBot that is used on its own

storevars == <<rag, disk, last, issued, deleted, adds, ragX, diskX>>
windowvars == <<bot, files, turns, forwarded, evicted, call>>

\* two threads that share the instance, one per user
Threads == {1, 2}
ThreadUser(t) == IF t = 1 THEN "A" ELSE "B"
\* the text a user's calls store: it tells whose document an entry is
UserText(user_id) == IF user_id = "A" THEN "t1" ELSE "t2"
Idle == [pc |-> "idle", metadata |-> None]
vars == <<rag, disk, last, issued, deleted, adds, ragX, diskX,
          bot, files, turns, forwarded, evicted, call, threads, built,
          assistant>>

NoCall ==
  [op |-> "none", user_id |-> None, doc_id |-> -1, document |-> None,
   ok |-> FALSE, envelope |-> execute_tool(FALSE, None)]

NoOp == [op |-> "none", user_message |-> 0, raised |-> FALSE, calls |-> <<>>]

\* a new chatbot on session "s1", no session file written yet
InitWindow(lengths) ==
  /\ bot \in {NewSimpleQAChatBot("s1", n, TRUE) : n \in lengths}
  /\ files = [sid \in SessionIds |-> <<>>]
  /\ turns = 0
  /\ forwarded = <<>>
  /\ evicted = {}
  /\ call = NoOp

InitWith(index_types) ==
  /\ InitWindow({DefaultHistoryLength})
  /\ threads = [t \in Threads |-> Idle]
  /\ rag \in {NewRAGSystem(t) : t \in index_types}
  /\ built = rag.index_type
  /\ assistant = NewRAGChatBot
  /\ disk = [u \in Users |-> NoFile]
  /\ last = NoCall
  /\ issued = [u \in Users |-> <<>>]
  /\ deleted = [u \in Users |-> {}]
  /\ adds = 0
  /\ ragX = NewRAGSystem("flat")
  /\ diskX = [u \in Users |-> NoFile]

\* add_document(user_id, document, metadata) through the dispatcher
Add(user_id, document, metadata) ==
  LET r == add_document(rag, disk, user_id, document, metadata)
  IN  /\ rag' = r.rag
      /\ disk' = r.disk
      /\ last' = [NoCall EXCEPT !.op = "add_document", !.user_id = user_id,
                                !.doc_id = r.ret, !.document = document,
                                !.ok = ~r.raised,
                                !.envelope = execute_tool(r.raised, "doc_id")]
      /\ issued' = [issued EXCEPT ![user_id] = Append(@, r.ret)]
      /\ adds' = adds + 1
      /\ UNCHANGED deleted
      /\ UNCHANGED <<windowvars, threads, built, assistant>>

\* update_document(user_id, doc_id, new_document, new_metadata) through the
\* dispatcher
Update(user_id, doc_id, new_document, new_metadata) ==
  LET r == update_document(rag, disk, user_id, doc_id, new_document, new_metadata)
  IN  /\ rag' = r.rag
      /\ disk' = r.disk
      /\ last' = [NoCall EXCEPT !.op = "update_document", !.user_id = user_id,
                                !.doc_id = doc_id, !.document = new_document,
                                !.ok = r.ret,
                                !.envelope = execute_tool(r.raised,
                                               _update_document(r.ret))]
      /\ UNCHANGED <<issued, deleted, adds>>
      /\ UNCHANGED <<windowvars, threads, built, assistant>>

\* delete_document(user_id, doc_id) through the dispatcher
Delete(user_id, doc_id) ==
  LET r == delete_document(rag, disk, user_id, doc_id)
  IN  /\ rag' = r.rag
      /\ disk' = r.disk
      /\ last' = [NoCall EXCEPT !.op = "delete_document", !.user_id = user_id,
                                !.doc_id = doc_id, !.ok = r.ret,
                                !.envelope = execute_tool(r.raised,
                                               _delete_document(r.ret))]
      /\ deleted' = IF r.ret THEN [deleted EXCEPT ![user_id] = @ \cup {doc_id}]
                             ELSE deleted
      /\ UNCHANGED <<issued, adds>>
      /\ UNCHANGED <<windowvars, threads, built, assistant>>

\* search(user_id, query, top_k) or get_stats(user_id): whatever the query
\* and the value returned, the call leaves the instance as
\* _ensure_user_database(user_id) does.  The result lists a search may return
\* are search(rag, disk, user_id, query, top_k), the same before and after.
Read(user_id) ==
  /\ rag' = _ensure_user_database(rag, disk, user_id)
  /\ last' = [NoCall EXCEPT !.op = "search", !.user_id = user_id, !.ok = TRUE,
                            !.envelope = execute_tool(FALSE, "results")]
  /\ UNCHANGED <<disk, issued, deleted, adds>>
  /\ UNCHANGED <<windowvars, threads, built, assistant>>

\* ------------------------------------------- Spec: two users and restarts
Init == InitWith(IndexTypes)

AddDocument ==
  /\ adds < MaxAdds
  /\ \E user_id \in Users, document \in TextsOfSpec, metadata \in MetaArgs :
       Add(user_id, document, metadata)
  /\ UNCHANGED <<ragX, diskX>>

UpdateDocument ==
  /\ \E user_id \in Users, doc_id \in 0..(MaxAdds - 1),
        new_document \in TextsOfSpec, new_metadata \in MetaArgs :
       Update(user_id, doc_id, new_document, new_metadata)
  /\ UNCHANGED <<ragX, diskX>>

DeleteDocument ==
  /\ \E user_id \in Users, doc_id \in 0..(MaxAdds - 1) : Delete(user_id, doc_id)
  /\ UNCHANGED <<ragX, diskX>>

Search ==
  /\ \E user_id \in Users : Read(user_id)
  /\ UNCHANGED <<ragX, diskX>>

\* The process ends and a new one constructs its RAGSystem; the snapshots
\* stay on disk.
Restart ==
  /\ rag' = NewRAGSystem(rag.index_type)
  /\ last' = [NoCall EXCEPT !.op = "restart"]
  /\ UNCHANGED <<disk, issued, deleted, adds, ragX, diskX>>
  /\ UNCHANGED <<windowvars, threads, built, assistant>>

Next ==
  \/ AddDocument
  \/ UpdateDocument
  \/ DeleteDocument
  \/ Search
  \/ Restart

Spec == Init /\ [][Next]_vars

\* ------------------- SpecOneUser: one instance, one user, a larger corpus
OneAdd ==
  /\ adds < MaxCorpus
  /\ \E document \in Texts, metadata \in MetaArgs : Add("A", document, metadata)
  /\ UNCHANGED <<ragX, diskX>>

OneUpdate ==
  /\ \E doc_id \in 0..(MaxCorpus - 1), new_document \in Texts,
        new_metadata \in MetaArgs :
       Update("A", doc_id, new_document, new_metadata)
  /\ UNCHANGED <<ragX, diskX>>

OneDelete ==
  /\ \E doc_id \in 0..(MaxCorpus - 1) : Delete("A", doc_id)
  /\ UNCHANGED <<ragX, diskX>>

OneSearch ==
  /\ Read("A")
  /\ UNCHANGED <<ragX, diskX>>

NextOneUser ==
  \/ OneAdd
  \/ OneUpdate
  \/ OneDelete
  \/ OneSearch

SpecOneUser == Init /\ [][NextOneUser]_vars

\* ------ SpecTwin: a clustered and an exact instance given the same calls,
\* ------ the corpus kept strictly below the training threshold
InitTwin == InitWith({"ivf"})

TwinAdd ==
  /\ adds < MaxCorpus
  /\ Len(_ensure_user_database(rag, disk, "A").documents) + 1 < TrainThreshold
  /\ \E document \in Texts, metadata \in MetaArgs :
       /\ Add("A", document, metadata)
       /\ ragX' = add_document(ragX, diskX, "A", document, metadata).rag
       /\ diskX' = add_document(ragX, diskX, "A", document, metadata).disk

TwinUpdate ==
  \E doc_id \in 0..(MaxCorpus - 1), new_document \in Texts, new_metadata \in MetaArgs :
    /\ Update("A", doc_id, new_document, new_metadata)
    /\ ragX' = update_document(ragX, diskX, "A", doc_id, new_document, new_metadata).rag
    /\ diskX' = update_document(ragX, diskX, "A", doc_id, new_document, new_metadata).disk

TwinDelete ==
  \E doc_id \in 0..(MaxCorpus - 1) :
    /\ Delete("A", doc_id)
    /\ ragX' = delete_document(ragX, diskX, "A", doc_id).rag
    /\ diskX' = delete_document(ragX, diskX, "A", doc_id).disk

TwinSearch ==
  /\ Read("A")
  /\ ragX' = _ensure_user_database(ragX, diskX, "A")
  /\ UNCHANGED diskX

NextTwin ==
  \/ TwinAdd
  \/ TwinUpdate
  \/ TwinDelete
  \/ TwinSearch

SpecTwin == InitTwin /\ [][NextTwin]_vars

\* ---- SpecClustered: one clustered instance, one user, a corpus that
\* ---- crosses the training threshold in both directions, and restarts
InitClustered == InitWith({"ivf"})

ClusteredAdd ==
  /\ adds < MaxCorpus
  /\ \E document \in TextsOfSpec : Add("A", document, None)
  /\ UNCHANGED <<ragX, diskX>>

ClusteredUpdate ==
  /\ \E doc_id \in 0..(MaxCorpus - 1), new_document \in TextsOfSpec :
       Update("A", doc_id, new_document, None)
  /\ UNCHANGED <<ragX, diskX>>

ClusteredDelete ==
  /\ \E doc_id \in 0..(MaxCorpus - 1) : Delete("A", doc_id)
  /\ UNCHANGED <<ragX, diskX>>

ClusteredSearch ==
  /\ Read("A")
  /\ UNCHANGED <<ragX, diskX>>

NextClustered ==
  \/ ClusteredAdd
  \/ ClusteredUpdate
  \/ ClusteredDelete
  \/ ClusteredSearch
  \/ Restart

SpecClustered == InitClustered /\ [][NextClustered]_vars

\* ------------------------------------------- the chatbot's operations
\* What a bot operation leaves behind: the bot after its check, the session
\* files, the RAGChatBot.chat calls it made (store_calls, of which the last
\* Len(cons_calls) are the consolidation calls of the check) and the
\* window before the check.
Settle(b_checked, b_after, new_files, store_calls, cons_calls, tools, record) ==
  LET w == rag_chats(rag, disk, store_calls, tools, 1)
  IN  /\ tools \subseteq {i \in 1..Len(store_calls) : ~store_calls[i].raised}
      /\ adds + Cardinality(tools) <= MaxAdds
      /\ Len(forwarded) + Len(cons_calls) <= MaxForwards
      /\ bot' = b_after
      /\ files' = new_files
      /\ forwarded' = forwarded \o cons_calls
      /\ evicted' = evicted \cup
                      (Range(UserTurns(b_checked.conversation_history))
                         \ Range(UserTurns(b_after.conversation_history)))
      /\ call' = [record EXCEPT !.calls = cons_calls]
      /\ rag' = w.rag
      /\ disk' = w.disk
      /\ issued' = [issued EXCEPT ![BotUser] = @ \o w.rets]
      /\ adds' = adds + Len(w.rets)
      /\ UNCHANGED <<deleted, ragX, diskX, threads, built, assistant>>

\* SimpleQAChatBot.chat(user_message).  outcome "rag": the background
\* chatbot replied; "simple": it raised or is switched off and the
\* template path replied; "raise": the template path raised too and chat
\* raises, nothing stored.  fail_at: the consolidation call that raises.
Chat(outcome, fail_at, tools) ==
  LET user_message == turns + 1
      primary == IF bot.enable_background_memory
                   THEN <<[user_message |-> user_message,
                           raised |-> outcome # "rag"]>>
                   ELSE <<>>
      a == chat_append(bot, files, user_message)
      m == _manage_conversation_history(a.bot, fail_at)
      record == [NoOp EXCEPT !.op = "chat", !.user_message = user_message,
                             !.raised = outcome = "raise"]
  IN  /\ outcome = "rag" => bot.enable_background_memory
      /\ turns' = IF outcome = "raise" THEN turns ELSE turns + 1
      /\ IF outcome = "raise"
           THEN /\ fail_at = 0
                /\ Settle(bot, bot, files, primary, <<>>, tools, record)
           ELSE /\ fail_at = 0 \/ bot.enable_background_memory
                /\ fail_at <= Len(OldMessageMappings(a.bot))
                /\ Settle(a.bot, m.bot, a.files, primary \o m.calls, m.calls,
                          tools, record)

\* SimpleQAChatBot.set_history_length(max_history_length)
SetLength(max_history_length, fail_at, tools) ==
  LET b == set_limits(bot, max_history_length)
      m == _manage_conversation_history(b, fail_at)
  IN  /\ fail_at = 0 \/ bot.enable_background_memory
      /\ fail_at <= Len(OldMessageMappings(b))
      /\ Settle(b, m.bot, files, m.calls, m.calls, tools,
                [NoOp EXCEPT !.op = "set_history_length"])

\* An operation that makes no check and calls nothing
Plain(b_after, op) ==
  Settle(b_after, b_after, files, <<>>, <<>>, {}, [NoOp EXCEPT !.op = op])

\* --------------- SpecChat: one chatbot, every window operation, small N;
\* --------------- the assistant answers without invoking a store tool
InitChat ==
  /\ InitWindow(HistoryLengths)
  /\ threads = [t \in Threads |-> Idle]
  /\ rag = NewRAGSystem("flat")
  /\ built = "flat"
  /\ assistant = NewRAGChatBot
  /\ disk = [u \in Users |-> NoFile]
  /\ last = NoCall
  /\ issued = [u \in Users |-> <<>>]
  /\ deleted = [u \in Users |-> {}]
  /\ adds = 0
  /\ ragX = NewRAGSystem("flat")
  /\ diskX = [u \in Users |-> NoFile]

ChatCall ==
  /\ turns < MaxChats
  /\ \E outcome \in {"rag", "simple", "raise"}, fail_at \in 0..(2 * MaxN) :
       Chat(outcome, fail_at, {})
  /\ UNCHANGED last

SetHistoryLength ==
  /\ \E max_history_length \in HistoryLengths, fail_at \in 0..(2 * MaxN) :
       SetLength(max_history_length, fail_at, {})
  /\ UNCHANGED <<turns, last>>

LoadSession ==
  /\ \E session_id \in SessionIds :
       Plain(load_session(bot, files, session_id), "load_session")
  /\ UNCHANGED <<turns, last>>

ClearConversation ==
  /\ Plain(clear_conversation(bot), "clear_conversation")
  /\ UNCHANGED <<turns, last>>

SetBackgroundMemory ==
  /\ \E enable \in BOOLEAN :
       Plain(set_background_memory(bot, enable), "set_background_memory")
  /\ UNCHANGED <<turns, last>>

NextChat ==
  \/ ChatCall
  \/ SetHistoryLength
  \/ LoadSession
  \/ ClearConversation
  \/ SetBackgroundMemory

SpecChat == InitChat /\ [][NextChat]_vars

\* ------ SpecFresh: a new session with the default N, chat calls only
InitFresh == InitWith({"flat"})

FreshChat ==
  /\ turns < MaxTurns
  /\ \E outcome \in {"rag", "simple", "raise"},
        fail_at \in 0..DefaultHistoryLength,
        tools \in SUBSET (1..(DefaultHistoryLength + 1)) :
       Chat(outcome, fail_at, tools)
  /\ UNCHANGED last

NextFresh == FreshChat

SpecFresh == InitFresh /\ [][NextFresh]_vars

\* ---- SpecInterleaved: two threads call add_document on one instance,
\* ---- each for its own user; a thread can be suspended between the
\* ---- _ensure_user_database of its call and the rest of the method
InitInterleaved == InitWith(IndexTypes)

\* a thread enters add_document(user_id, document, metadata) and runs
\* _ensure_user_database(user_id)
BeginAdd ==
  /\ adds < MaxAdds
  /\ \E t \in Threads, metadata \in MetaArgs :
       /\ threads[t].pc = "idle"
       /\ rag' = _ensure_user_database(rag, disk, ThreadUser(t))
       /\ threads' = [threads EXCEPT ![t] = [pc |-> "loaded", metadata |-> metadata]]
       /\ last' = [NoCall EXCEPT !.op = "enter add_document",
                                 !.user_id = ThreadUser(t)]
  /\ adds' = adds + 1
  /\ UNCHANGED <<disk, issued, deleted, ragX, diskX, windowvars, built,
                 assistant>>

\* the thread runs the rest of add_document and returns
FinishAdd ==
  /\ \E t \in Threads :
       LET r == add_resumed(rag, disk, ThreadUser(t), UserText(ThreadUser(t)),
                            threads[t].metadata)
       IN  /\ threads[t].pc = "loaded"
           /\ rag' = r.rag
           /\ disk' = r.disk
           /\ threads' = [threads EXCEPT ![t] = Idle]
           /\ last' = [NoCall EXCEPT !.op = "add_document",
                                     !.user_id = ThreadUser(t),
                                     !.doc_id = r.ret,
                                     !.document = UserText(ThreadUser(t)),
                                     !.ok = ~r.raised,
                                     !.envelope = execute_tool(r.raised, "doc_id")]
           /\ issued' = [issued EXCEPT ![ThreadUser(t)] = Append(@, r.ret)]
  /\ UNCHANGED <<deleted, adds, ragX, diskX, windowvars, built, assistant>>

NextInterleaved ==
  \/ BeginAdd
  \/ FinishAdd

SpecInterleaved == InitInterleaved /\ [][NextInterleaved]_vars

\* ------- SpecMemory: a chatbot whose assistant stores documents, and
\* ------- clear_background_memory
\* Here `last` is [op, path, grounding, retrieved_docs]: for a chat call,
\* the documents its background chatbot retrieved for the prompt and the
\* retrieved_docs of the memory-mapping entry the call appended (the model
\* keeps the user message of an entry in bot.message_memory_mapping).
DocRefs(results) ==
  {[doc_id |-> results[i].doc_id, document |-> results[i].document] :
     i \in DOMAIN results}

InitMemory == InitWith({"flat"})

\* chat(user_message): the background chatbot retrieves, replies (and may
\* store a document), then chat retrieves again for the mapping entry
MemoryChat ==
  /\ turns < MaxChats
  /\ \E outcome \in {"rag", "simple"}, tools \in SUBSET {1} :
       /\ Chat(outcome, 0, tools)
       /\ \E replied \in {rag_chats(rag, disk,
                               <<[user_message |-> turns + 1,
                                  raised |-> outcome # "rag"]>>, tools, 1)} :
            \E grounding \in _build_template_context(rag, disk, turns + 1),
               retrieved_docs \in get_retrieved_documents(bot, replied.rag,
                                                          replied.disk, turns + 1) :
              last' = [op |-> "chat", path |-> outcome,
                       grounding |-> DocRefs(grounding),
                       retrieved_docs |-> DocRefs(retrieved_docs)]

\* clear_background_memory()
ClearBackgroundMemory ==
  /\ \E cleared \in {clear_background_memory(bot, rag, disk)} :
       /\ rag' = cleared.rag
       /\ disk' = cleared.disk
  /\ last' = [op |-> "clear_background_memory", path |-> None,
              grounding |-> {}, retrieved_docs |-> {}]
  /\ call' = [NoOp EXCEPT !.op = "clear_background_memory"]
  /\ UNCHANGED <<bot, files, turns, forwarded, evicted, issued, deleted, adds,
                 ragX, diskX, threads, built, assistant>>

NextMemory ==
  \/ MemoryChat
  \/ ClearBackgroundMemory
  \/ SetBackgroundMemory

SpecMemory == InitMemory /\ [][NextMemory]_vars

\* ------- SpecDispatch: tool calls by name, constructors, file conditions
\* The callers of execute_tool pass whatever name and arguments the
\* language model produced; the file system may refuse a read or a write.
\* Here `last` is [op, user_id, bound, raised, envelope] after a tool call:
\* the tool name, the user_id argument if given, whether the arguments
\* bound to the tool function, whether an exception left execute_tool, and
\* the dict returned; [op, index_type, raised] after a constructor call;
\* [op, user_id] after damage to a file.
UnknownTool == "invalid_tool"
UnknownIndexType == "lsh"
ToolNames == tool_map \cup {UnknownTool}
Mutating == {"add_document", "update_document", "delete_document"}

\* the values the arguments of a call are taken from: one text for every
\* document, the export file of the user as file_path
FullArgs ==
  {[user_id |-> u, document |-> "t1", doc_id |-> i, new_document |-> "t1",
    query |-> "t1", file_path |-> u, bogus |-> 0] :
     u \in {BotUser}, i \in 0..(MaxToolAdds - 1)}

\* the argument dicts of a call: the required keywords, the required
\* keywords but one, and the required keywords with one that no tool has
ArgDicts(tool_name) ==
  LET req == IF tool_name \in tool_map THEN Required(tool_name) ELSE {}
  IN  {[n \in names |-> f[n]] :
         f \in FullArgs,
         names \in {req} \cup {req \ {n} : n \in req} \cup {req \cup {"bogus"}}}

\* RAGSystem(index_type=index_type) with a _create_index whose last branch
\* returns the exact index instead of raising
RAGSystem_defaulting(index_type) ==
  [raised |-> FALSE, exc |-> None, rag |-> NewRAGSystem(index_type)]

\* RAGSystem(index_type=index_type): _create_index raises ValueError for
\* an index_type it has no branch for, and then no instance is returned
RAGSystem(index_type) ==
  IF index_type \in {"flat", "ivf", "hnsw"}
    THEN [raised |-> FALSE, exc |-> None, rag |-> NewRAGSystem(index_type)]
    ELSE [raised |-> TRUE, exc |-> "ValueError", rag |-> None]

InitDispatch == InitWith(IndexTypes)

\* With(d, mode): the snapshots d while the file system treats writes as
\* `mode`
With(d, mode) == [u \in Users |-> [d[u] EXCEPT !.write = mode]]

\* what the file system may do with the writes of a call: only the tools
\* of Writing write a file
Writing == Mutating \cup {"save_database", "save_documents_only"}
ModesOf(tool_name) == IF tool_name \in Writing THEN WriteModes ELSE {"ok"}

\* execute_tool(tool_name, arguments); the writes of this call succeed, are
\* refused, or break off
Dispatch ==
  /\ \E tool_name \in ToolNames :
       \E arguments \in ArgDicts(tool_name), mode \in ModesOf(tool_name) :
         \E r \in {execute_tool_on(rag, With(disk, mode), tool_name, arguments)} :
           /\ (tool_name = "add_document" /\ Binds(tool_name, arguments))
                 => adds < MaxToolAdds
           /\ rag' = r.rag
           /\ disk' = With(r.disk, "ok")
           /\ adds' = IF tool_name = "add_document" /\ Binds(tool_name, arguments)
                        THEN adds + 1 ELSE adds
           /\ last' = [op |-> tool_name,
                       user_id |-> ArgOr(arguments, "user_id", None),
                       bound |-> tool_name \in tool_map /\ Binds(tool_name, arguments),
                       raised |-> r.raised, envelope |-> r.envelope]
  /\ UNCHANGED <<issued, deleted, ragX, diskX, windowvars, threads, built, assistant>>

\* The process ends and a new one calls RAGSystem(index_type), with the
\* variant it is configured for or with a name that is none; when the
\* constructor raises, the process has no instance and ends, and the next
\* one constructs the variant used before.
Construct ==
  /\ \E index_type \in {rag.index_type, UnknownIndexType} :
       LET c == RAGSystem(index_type)
       IN  /\ rag' = IF c.raised THEN RAGSystem(rag.index_type).rag ELSE c.rag
           /\ last' = [op |-> "RAGSystem", index_type |-> index_type,
                       raised |-> c.raised]
  /\ UNCHANGED <<disk, issued, deleted, adds, ragX, diskX, windowvars, threads, built, assistant>>

\* A snapshot file is damaged: reading it raises from now on
Damage ==
  /\ \E user_id \in {BotUser} :
       /\ disk[user_id].exists /\ disk[user_id].readable
       /\ disk' = [disk EXCEPT ![user_id].readable = FALSE]
       /\ last' = [op |-> "damage", user_id |-> user_id]
  /\ UNCHANGED <<rag, issued, deleted, adds, ragX, diskX, windowvars, threads, built, assistant>>

NextDispatch ==
  \/ Dispatch
  \/ Construct
  \/ Damage

SpecDispatch == InitDispatch /\ [][NextDispatch]_vars

\* ------- SpecVariants: processes that construct different index variants
\* ------- over one user_memory directory
InitVariants == InitWith(IndexTypes)

VariantAdd ==
  /\ adds < MaxAdds
  /\ \E user_id \in Users, document \in TextsOfSpec : Add(user_id, document, None)
  /\ UNCHANGED <<ragX, diskX>>

VariantSearch ==
  /\ \E user_id \in Users : Read(user_id)
  /\ UNCHANGED <<ragX, diskX>>

\* The process ends and a new one calls RAGSystem(index_type=index_type)
\* with a variant of its own choice; the snapshots stay on disk.
Reconstruct ==
  /\ \E index_type \in IndexTypes :
       /\ rag' = RAGSystem(index_type).rag
       /\ built' = index_type
  /\ last' = [NoCall EXCEPT !.op = "restart"]
  /\ UNCHANGED <<disk, issued, deleted, adds, ragX, diskX>>
  /\ UNCHANGED <<windowvars, threads, assistant>>

NextVariants ==
  \/ VariantAdd
  \/ VariantSearch
  \/ Reconstruct

SpecVariants == InitVariants /\ [][NextVariants]_vars

\* ------- SpecAssistant: a RAGChatBot used on its own, as the interactive
\* ------- chat of rag_chat_example.py does; the exact store, writes succeed
InitAssistant == InitWith({"flat"})

\* the replies of the language model: the tools its first message invokes
ToolCallLists ==
  UNION {[1..n -> {"add_document", "search_documents"}] : n \in 0..MaxToolCalls}

\* the exchanges conversation_history holds: its user messages and its
\* assistant messages that invoke tools
Exchanges(history) ==
  Len(SelectSeq(history, LAMBDA m : m.role = "user" \/ m.tool_calls # <<>>))

\* chat(user_message).  _build_template_context looks the user up before
\* the model is called; the tools run on the store; a chat whose model
\* call raises is made again with the same message.
AssistantChat ==
  /\ turns < MaxChats
  /\ Exchanges(assistant.conversation_history) < MaxExchanges
  /\ \E tool_calls \in ToolCallLists, raises \in {"none", "first", "final"} :
       \E done \in {process_tool_calls(
                      _ensure_user_database(rag, disk, BotUser), disk,
                      IF raises = "first" THEN <<>> ELSE tool_calls,
                      turns + 1, 1)} :
         /\ raises = "final" => tool_calls # <<>>
         /\ done.rag.doc_counter <= MaxAdds
         /\ assistant' = rag_chat(assistant, turns + 1, tool_calls, raises)
         /\ rag' = done.rag
         /\ disk' = done.disk
         /\ issued' = [issued EXCEPT ![BotUser] =
                         @ \o [i \in 1..(done.rag.doc_counter
                                 - _ensure_user_database(rag, disk, BotUser).doc_counter)
                               |-> _ensure_user_database(rag, disk, BotUser).doc_counter
                                     + i - 1]]
         /\ adds' = adds + (done.rag.doc_counter
                      - _ensure_user_database(rag, disk, BotUser).doc_counter)
         /\ turns' = IF raises = "none" THEN turns + 1 ELSE turns
         /\ call' = [NoOp EXCEPT !.op = "rag_chat", !.user_message = turns + 1,
                                 !.raised = raises # "none"]
  /\ UNCHANGED <<last, deleted, ragX, diskX, bot, files, forwarded, evicted,
                 threads, built>>

\* RAGChatBot.clear_conversation()
ClearAssistant ==
  /\ assistant' = [assistant EXCEPT !.conversation_history = <<>>]
  /\ call' = [NoOp EXCEPT !.op = "rag_clear_conversation"]
  /\ UNCHANGED <<storevars, bot, files, turns, forwarded, evicted, threads,
                 built>>

NextAssistant ==
  \/ AssistantChat
  \/ ClearAssistant

SpecAssistant == InitAssistant /\ [][NextAssistant]_vars

\* ------- SpecSession: a chatbot whose session file may refuse a write
InitSession ==
  /\ InitWindow(HistoryLengths)
  /\ threads = [t \in Threads |-> Idle]
  /\ rag = NewRAGSystem("flat")
  /\ built = "flat"
  /\ assistant = NewRAGChatBot
  /\ disk = [u \in Users |-> NoFile]
  /\ last = NoCall
  /\ issued = [u \in Users |-> <<>>]
  /\ deleted = [u \in Users |-> {}]
  /\ adds = 0
  /\ ragX = NewRAGSystem("flat")
  /\ diskX = [u \in Users |-> NoFile]

\* chat(user_message): `first` is how the RAG path goes, `second` how
\* simple mode goes when the RAG path has raised; chat returns a reply
\* when one of them stores everything, and raises when simple mode raises
SessionChat ==
  /\ turns < MaxChats
  /\ \E first \in Attempts, second \in Attempts, fail_at \in 0..(2 * MaxN) :
       \E p \in {chat_paths(bot, files, turns + 1, first, second)} :
         /\ first = "reply" => second = "reply"
         /\ Len(p.files[bot.session_id]) <= 2 * (turns + 1) + MaxFailedWrites
         /\ Len(p.bot.message_memory_mapping)
              <= Len(p.bot.conversation_history) \div 2 + MaxFailedWrites
         /\ turns' = IF "reply" \in {first, second} THEN turns + 1 ELSE turns
         /\ IF "reply" \in {first, second}
              THEN /\ fail_at <= Len(OldMessageMappings(p.bot))
                   /\ Settle(p.bot, _manage_conversation_history(p.bot, fail_at).bot,
                             p.files,
                             <<[user_message |-> turns + 1,
                                raised |-> first = "raise"]>>
                               \o _manage_conversation_history(p.bot, fail_at).calls,
                             _manage_conversation_history(p.bot, fail_at).calls,
                             {},
                             [NoOp EXCEPT !.op = "chat",
                                          !.user_message = turns + 1])
              ELSE /\ fail_at = 0
                   /\ Settle(p.bot, p.bot, p.files,
                             <<[user_message |-> turns + 1,
                                raised |-> first = "raise"]>>,
                             <<>>, {},
                             [NoOp EXCEPT !.op = "chat",
                                          !.user_message = turns + 1,
                                          !.raised = TRUE])
  /\ UNCHANGED last

NextSession ==
  \/ SessionChat
  \/ SetHistoryLength

SpecSession == InitSession /\ [][NextSession]_vars

\* ------- SpecSteps: chat and set_history_length taken one statement group
\* ------- at a time; call.pc is where the running call stands, call.pending
\* ------- the entries its consolidation loop has still to hand over
NoStep ==
  [op |-> "none", user_message |-> 0, raised |-> FALSE, calls |-> <<>>,
   pc |-> "idle", pending |-> <<>>]

InitSteps ==
  /\ bot \in {NewSimpleQAChatBot("s1", n, TRUE) : n \in HistoryLengths}
  /\ files = [sid \in SessionIds |-> <<>>]
  /\ turns = 0
  /\ forwarded = <<>>
  /\ evicted = {}
  /\ call = NoStep
  /\ threads = [t \in Threads |-> Idle]
  /\ rag = NewRAGSystem("flat")
  /\ built = "flat"
  /\ assistant = NewRAGChatBot
  /\ disk = [u \in Users |-> NoFile]
  /\ last = NoCall
  /\ issued = [u \in Users |-> <<>>]
  /\ deleted = [u \in Users |-> {}]
  /\ adds = 0
  /\ ragX = NewRAGSystem("flat")
  /\ diskX = [u \in Users |-> NoFile]

\* _manage_conversation_history up to its call of
\* _process_old_messages_to_background_memory: the call stands in the check
\* with the batch to hand over when the window has reached the threshold
\* (nothing to hand over when background memory is off), and is about to
\* return otherwise
enter_check(b, record) ==
  IF Len(b.conversation_history) \div 2 >= b.max_working_length
    THEN [record EXCEPT !.pc = "managing",
                        !.pending = IF b.enable_background_memory
                                      THEN OldMessageMappings(b) ELSE <<>>]
    ELSE [record EXCEPT !.pc = "returning"]

\* _manage_conversation_history trimming as soon as the check is entered
may_trim_at_once(c) == c.pc = "managing"

\* _manage_conversation_history reaches its two trimming assignments when
\* _process_old_messages_to_background_memory has returned
may_trim(c) == c.pc = "managing" /\ c.pending = <<>>

\* chat(user_message) from its first line to the call of
\* _manage_conversation_history, or to the exception that ends it
StepChat ==
  /\ call.pc = "idle"
  /\ turns < MaxChats
  /\ \E outcome \in {"rag", "simple", "raise"} :
       \E a \in {chat_append(bot, files, turns + 1)},
          w \in {rag_chats(rag, disk,
                   IF bot.enable_background_memory
                     THEN <<[user_message |-> turns + 1,
                             raised |-> outcome # "rag"]>>
                     ELSE <<>>, {}, 1)} :
         /\ outcome = "rag" => bot.enable_background_memory
         /\ Len(forwarded) + Len(OldMessageMappings(a.bot)) <= MaxForwards
         /\ rag' = w.rag
         /\ disk' = w.disk
         /\ IF outcome = "raise"
              THEN /\ call' = [NoStep EXCEPT !.op = "chat",
                                             !.user_message = turns + 1,
                                             !.raised = TRUE]
                   /\ UNCHANGED <<bot, files>>
              ELSE /\ call' = enter_check(a.bot,
                                [NoStep EXCEPT !.op = "chat",
                                               !.user_message = turns + 1])
                   /\ bot' = a.bot
                   /\ files' = a.files
  /\ UNCHANGED <<turns, forwarded, evicted, last, issued, deleted, adds,
                 ragX, diskX, threads, built, assistant>>

\* set_history_length(max_history_length) to its call of
\* _manage_conversation_history
StepSetLength ==
  /\ call.pc = "idle"
  /\ \E max_history_length \in HistoryLengths :
       \E b \in {set_limits(bot, max_history_length)} :
         /\ Len(forwarded) + Len(OldMessageMappings(b)) <= MaxForwards
         /\ bot' = b
         /\ call' = enter_check(b, [NoStep EXCEPT !.op = "set_history_length"])
  /\ UNCHANGED <<files, turns, forwarded, evicted, rag, disk, last, issued,
                 deleted, adds, ragX, diskX, threads, built, assistant>>

\* one pass of the loop of _process_old_messages_to_background_memory:
\* background_rag_chatbot.chat on the next entry; when it raises, the
\* exception leaves the loop and the function returns
StepForward ==
  /\ call.pc = "managing"
  /\ call.pending # <<>>
  /\ \E raised \in BOOLEAN :
       \E c \in {[user_message |-> Head(call.pending), raised |-> raised]} :
         /\ forwarded' = Append(forwarded, c)
         /\ rag' = rag_chats(rag, disk, <<c>>, {}, 1).rag
         /\ disk' = rag_chats(rag, disk, <<c>>, {}, 1).disk
         /\ call' = [call EXCEPT !.calls = Append(@, c),
                                 !.pending = IF raised THEN <<>> ELSE Tail(@)]
  /\ UNCHANGED <<bot, files, turns, evicted, last, issued, deleted, adds,
                 ragX, diskX, threads, built, assistant>>

\* the two trimming assignments that end _manage_conversation_history
StepTrim ==
  /\ may_trim(call)
  /\ bot' = _manage_conversation_history(bot, 0).bot
  /\ evicted' = evicted \cup
                  (Range(UserTurns(bot.conversation_history))
                     \ Range(UserTurns(bot'.conversation_history)))
  /\ call' = [call EXCEPT !.pc = "returning"]
  /\ UNCHANGED <<files, turns, forwarded, rag, disk, last, issued, deleted,
                 adds, ragX, diskX, threads, built, assistant>>

\* the operation returns to its caller
StepReturn ==
  /\ call.pc = "returning"
  /\ call' = [call EXCEPT !.pc = "idle"]
  /\ turns' = IF call.op = "chat" THEN turns + 1 ELSE turns
  /\ UNCHANGED <<bot, files, forwarded, evicted, rag, disk, last, issued,
                 deleted, adds, ragX, diskX, threads, built, assistant>>

NextSteps ==
  \/ StepChat
  \/ StepSetLength
  \/ StepForward
  \/ StepTrim
  \/ StepReturn

SpecSteps == InitSteps /\ [][NextSteps]_vars

\* ================================================================== claims
\* the index can be searched: exact, graph, or trained clustered
Indexed(s) == s.index_type # "ivf" \/ s.index.is_trained
\* the last call was a mutating one that returned successfully
Mutated == last.op \in {"add_document", "update_document", "delete_document"} /\ last.ok
\* texts that occur once among the stored documents: a query for one of them
\* has a single best-scoring document, so no order of ties is involved
Unique(s, text) ==
  Cardinality({i \in 1..Len(s.documents) : s.documents[i].v = text}) = 1

\* C1: in an exact or graph store, the i-th vector of the index is the
\* embedding of the text of the i-th document in the iteration order of
\* `documents`, after any sequence of add, update and delete calls.
C1_VectorsFollowDocuments ==
  rag.index_type \in {"flat", "hnsw"} =>
    \A i \in 1..Len(rag.index.vecs) :
      /\ i <= Len(rag.documents)
      /\ rag.index.vecs[i] = encode(rag.documents[i].v)

\* C2: whenever the index is in an indexed state (exact, graph, or trained
\* clustered), it holds as many vectors as there are stored documents.
C2_VectorCountIsDocumentCount ==
  Indexed(rag) => Len(rag.index.vecs) = Len(rag.documents)

\* C3: after update_document(doc_id, new_text) succeeds, search(new_text, 1)
\* returns that doc_id with the new text as its first result.  Stated for the
\* exact store and a new_text no other document carries, where the ranking
\* is determined.
C3_UpdatedDocumentIsFound ==
  (/\ last.op = "update_document" /\ last.ok
   /\ rag.index_type = "flat"
   /\ Unique(rag, last.document))
  => \A res \in search(rag, disk, last.user_id, last.document, 1) :
       /\ Len(res) = 1
       /\ res[1].doc_id = last.doc_id
       /\ res[1].document = last.document

\* C4: add_document(t) followed at once by search(t, 1) returns the doc_id
\* the add returned, with the maximal score.  Stated for the exact store and
\* a text no other document carries, where the ranking is determined.
C4_AddedDocumentIsFound ==
  (/\ last.op = "add_document" /\ last.ok
   /\ rag.index_type = "flat"
   /\ Unique(rag, last.document))
  => \A res \in search(rag, disk, last.user_id, last.document, 1) :
       /\ Len(res) = 1
       /\ res[1].doc_id = last.doc_id
       /\ res[1].score = Scale

\* C5: delete_document on an existing doc_id returns True and lowers the
\* user's num_documents by exactly 1, and no search for that user returns a
\* doc_id that was deleted for that user, whatever calls came in between.
C5_DeletedNeverReturned ==
  /\ [][(/\ last'.op = "delete_document"
         /\ last'.doc_id \in
              KeySet(_ensure_user_database(rag, disk, last'.user_id).documents))
        => /\ last'.ok
           /\ get_stats(rag', disk', last'.user_id).num_documents
                = get_stats(rag, disk, last'.user_id).num_documents - 1
       ]_vars
  /\ [](\A user_id \in Users, query \in Texts, top_k \in 1..MaxTopK :
          \A res \in search(rag, disk, user_id, query, top_k) :
            \A i \in 1..Len(res) : res[i].doc_id \notin deleted[user_id])

\* a search for a user some of whose documents were deleted returns results
C5_Witness ==
  /\ last.op = "search"
  /\ deleted[last.user_id] # {}
  /\ \E query \in Texts : \E res \in search(rag, disk, last.user_id, query, MaxTopK) :
       res # <<>>

\* C6: when add_document, update_document or delete_document has returned
\* successfully, the user's snapshot file exists and holds the in-memory
\* documents, metadata and counter, for every index variant.
C6_SnapshotIsMemory ==
  Mutated =>
    /\ disk[last.user_id].exists
    /\ disk[last.user_id].db_data.documents = rag.documents
    /\ disk[last.user_id].db_data.metadata = rag.metadata
    /\ disk[last.user_id].db_data.doc_counter = rag.doc_counter

\* C7: for one user, add_document never returns a doc_id an earlier
\* add_document for that user returned.
C7_DocIdsNeverReused ==
  \A user_id \in Users :
    \A i, j \in 1..Len(issued[user_id]) :
      i # j => issued[user_id][i] # issued[user_id][j]

\* C8: update_document and delete_document on an absent doc_id return False
\* without raising; the user's documents, metadata, counter and index are
\* what loading the user gives, no snapshot is written, and the dispatcher
\* answers success=True with updated=False (deleted=False).
C8_AbsentDocIdIsFalse ==
  [][(/\ last'.op \in {"update_document", "delete_document"}
      /\ last'.doc_id \notin
           KeySet(_ensure_user_database(rag, disk, last'.user_id).documents))
     => /\ ~last'.ok
        /\ rag' = _ensure_user_database(rag, disk, last'.user_id)
        /\ rag.current_user_id = last'.user_id => rag' = rag
        /\ disk' = disk
        /\ last'.envelope =
             [success |-> TRUE, error |-> None,
              data |-> IF last'.op = "update_document"
                         THEN "updated=False" ELSE "deleted=False"]
    ]_vars

\* an update or delete of an absent doc_id on a store that holds documents
C8_Witness ==
  /\ last.op \in {"update_document", "delete_document"}
  /\ ~last.ok
  /\ rag.documents # <<>>
  /\ last.doc_id \notin KeySet(rag.documents)

\* the doc_id sequences of a set of result lists
DocIds(results) == {[i \in 1..Len(res) |-> res[i].doc_id] : res \in results}

\* C9: a clustered and an exact store given the same calls, the corpus kept
\* below the training threshold: the clustered store reports is_trained ==
\* False and every search ranks the same doc_ids in the same order in both.
\* Stated for corpora whose texts differ pairwise, where no two scores tie.
C9_ClusteredRanksAsExact ==
  (\A i \in 1..Len(rag.documents) : Unique(rag, rag.documents[i].v))
  => /\ ~get_stats(rag, disk, "A").is_trained
     /\ \A query \in Texts, top_k \in 1..MaxTopK :
          DocIds(search(rag, disk, "A", query, top_k))
            = DocIds(search(ragX, diskX, "A", query, top_k))

\* how often x occurs in a list
CountOf(seq, x) == Cardinality({i \in 1..Len(seq) : seq[i] = x})

\* C10: after an update_document or delete_document on a clustered store
\* that leaves at least TrainThreshold documents, the index is trained and
\* holds exactly one vector per surviving document.
C10_RebuildTrains ==
  (/\ last.op \in {"update_document", "delete_document"} /\ last.ok
   /\ rag.index_type = "ivf"
   /\ Len(rag.documents) >= TrainThreshold)
  => /\ rag.index.is_trained
     /\ Len(rag.index.vecs) = Len(rag.documents)
     /\ \A text \in Texts :
          CountOf(rag.index.vecs, encode(text)) = CountOf(Values(rag.documents), text)

\* C11: a clustered index is trained only in states where the number of
\* stored documents is at least the training threshold, in memory and in
\* every snapshot on disk, after any sequence of add, update and delete calls.
C11_TrainedOnlyAtThreshold ==
  /\ (rag.index_type = "ivf" /\ rag.index.is_trained)
       => Len(rag.documents) >= TrainThreshold
  /\ \A u \in Users :
       (/\ disk[u].exists
        /\ disk[u].db_data.index_type = "ivf"
        /\ disk[u].db_data.index_data.is_trained)
       => Len(disk[u].db_data.documents) >= TrainThreshold

\* a clustered index that an update or a delete left trained
C11_Witness ==
  /\ rag.index_type = "ivf"
  /\ rag.index.is_trained
  /\ last.op \in {"update_document", "delete_document"}
  /\ last.ok

\* ------------------------------------------------- claims on the window
\* pair count of a bot's window
Pairs(b) == Len(b.conversation_history) \div 2
\* the bot on which the check of the step's operation ran: after the
\* appends of chat, after the new limits of set_history_length
Checked ==
  IF call'.op = "chat"
    THEN chat_append(bot, files, call'.user_message).bot
    ELSE set_limits(bot, bot'.max_history_length)
\* the step is an operation that ran the overflow check
Checks ==
  \/ call'.op = "chat" /\ ~call'.raised
  \/ call'.op = "set_history_length"
\* the user messages of a list of consolidation calls
Messages(calls) == [i \in 1..Len(calls) |-> calls[i].user_message]

\* C12: len(message_memory_mapping) equals len(conversation_history) // 2
\* after every public operation (chat, load_session, clear_conversation,
\* set_history_length), taken in any order.
C12_MappingMatchesWindow ==
  Len(bot.message_memory_mapping) = Pairs(bot)

\* C13: with N = 3 and background memory enabled, after 7 chat calls on a
\* fresh session the window holds exactly 3 pairs and exactly the first 4
\* user turns have been forwarded to consolidation, in the order received.
C13_SevenTurns ==
  (turns = 7 /\ bot.max_history_length = DefaultHistoryLength)
  => /\ Pairs(bot) = 3
     /\ Messages(forwarded) = <<1, 2, 3, 4>>

\* C14: at the end of every chat call the window holds at most N pairs and
\* the memory mapping at most N entries.
C14_WindowAtMostN ==
  (call.op = "chat" /\ ~call.raised)
  => /\ Pairs(bot) <= bot.max_history_length
     /\ Len(bot.message_memory_mapping) <= bot.max_history_length

\* C15: when the overflow check finds pair_count >= 2N, it leaves the window
\* as exactly its newest N pairs in their order and the mapping as exactly
\* its newest N entries; when pair_count < 2N it leaves window and mapping
\* unchanged and forwards nothing.
C15_CheckKeepsNewestN ==
  [][Checks =>
      LET b == Checked
          n == b.max_history_length
          h == b.conversation_history
          m == b.message_memory_mapping
      IN  IF Pairs(b) >= 2 * n
            THEN /\ Len(bot'.conversation_history) = 2 * n
                 /\ \A i \in 1..(2 * n) :
                      bot'.conversation_history[i] = h[Len(h) - 2 * n + i]
                 /\ Len(bot'.message_memory_mapping) = n
                 /\ \A i \in 1..n :
                      bot'.message_memory_mapping[i] = m[Len(m) - n + i]
            ELSE /\ bot'.conversation_history = h
                 /\ bot'.message_memory_mapping = m
                 /\ call'.calls = <<>>
    ]_vars

\* C16: if consolidation of one evicted turn raises, the later evicted turns
\* of the same batch are still forwarded: with background memory enabled,
\* every entry the check takes from the mapping is forwarded.
C16_BatchIsForwardedWhole ==
  [][(Checks /\ bot.enable_background_memory)
     => \A i \in 1..Len(OldMessageMappings(Checked)) :
          /\ i <= Len(call'.calls)
          /\ call'.calls[i].user_message = OldMessageMappings(Checked)[i]
    ]_vars

\* C17: if consolidation of an evicted turn raises, the exception does not
\* propagate out of the triggering call, the window is still trimmed to its
\* newest N pairs, and the failed turn is never forwarded again.
C17_FailureIsSwallowedOnce ==
  /\ [][(\E i \in 1..Len(call'.calls) : call'.calls[i].raised)
        => /\ ~call'.raised
           /\ Pairs(bot') = bot'.max_history_length
           /\ bot'.conversation_history =
                Suffix(Checked.conversation_history, 2 * bot'.max_history_length)
       ]_vars
  /\ [](\A i, j \in 1..Len(forwarded) :
          (i < j /\ forwarded[i].raised)
          => forwarded[j].user_message # forwarded[i].user_message)

\* C18: user turns are forwarded oldest-first: the calls of one check are
\* the pair_count - N oldest mapping entries in order (all of them when no
\* call raises), and over the session the forwarded turns are in the order
\* in which they were received.
C18_ForwardedOldestFirst ==
  /\ [][Checks =>
         LET b == Checked
             overflow == Pairs(b) - b.max_history_length
         IN  /\ \A i \in 1..Len(call'.calls) :
                  /\ i <= overflow
                  /\ call'.calls[i].user_message = b.message_memory_mapping[i]
             /\ (/\ Pairs(b) >= b.max_working_length
                 /\ b.enable_background_memory
                 /\ \A i \in 1..Len(call'.calls) : ~call'.calls[i].raised)
                => Len(call'.calls) = overflow
       ]_vars
  /\ [](\A i, j \in 1..Len(forwarded) :
          i < j => forwarded[i].user_message <= forwarded[j].user_message)

\* C19: a turn that has been evicted from the window never appears in the
\* window again, under any later chat, load_session, set_history_length and
\* clear_conversation calls.
C19_EvictedStayOut ==
  Range(UserTurns(bot.conversation_history)) \cap evicted = {}

\* ------------------------------------------------ claims on interleaving
\* the texts a database holds
TextsIn(documents) == Range(Values(documents))
\* user_id's database, in memory or in its snapshot, holds a document that a
\* call for another user stored
HoldsForeign(user_id) ==
  \E other \in Users \ {user_id} :
    \/ rag.current_user_id = user_id /\ UserText(other) \in TextsIn(rag.documents)
    \/ /\ disk[user_id].exists
       /\ UserText(other) \in TextsIn(disk[user_id].db_data.documents)

\* C20: when a call for one user loads its user between another call's load
\* and its mutation, the other call's document goes to the database that is
\* loaded then: it is appended to the loaded user's documents and saved to
\* the loaded user's snapshot, and the snapshot of the caller's own user is
\* not written.  One user's document is then held in, and persisted to, the
\* other user's database.
C20_MutationGoesToLoadedUser ==
  [][(last'.op = "add_document" /\ rag.current_user_id # last'.user_id)
     => /\ rag'.current_user_id = rag.current_user_id
        /\ rag'.documents =
             Append(rag.documents, [k |-> last'.doc_id, v |-> last'.document])
        /\ disk'[last'.user_id] = disk[last'.user_id]
        /\ Indexed(rag) =>
             /\ disk'[rag.current_user_id].exists
             /\ disk'[rag.current_user_id].db_data.documents = rag'.documents
    ]_vars

\* a user's snapshot on disk holds a document a call for the other user stored
C20_Witness ==
  /\ last.op = "add_document"
  /\ \E user_id \in Users \ {last.user_id} :
       /\ disk[user_id].exists
       /\ last.document \in TextsIn(disk[user_id].db_data.documents)
       /\ HoldsForeign(user_id)

\* ------------------------------------------------- dispatcher and faults
\* C21: execute_tool never raises: for every tool name and argument dict it
\* returns a dict with exactly the keys success, error and data; success=True
\* implies error is None, success=False implies data is None and error is a
\* string; an unknown tool name or a missing required argument gives
\* success=False.
C21_EnvelopeAlways ==
  last.op \in ToolNames =>
    /\ ~last.raised
    /\ DOMAIN last.envelope = {"success", "error", "data"}
    /\ last.envelope.success \in BOOLEAN
    /\ last.envelope.success => last.envelope.error = None
    /\ ~last.envelope.success =>
         /\ last.envelope.data = NoneData
         /\ last.envelope.error \in {"Unknown tool", "str(e)"}
    /\ (last.op \notin tool_map \/ ~last.bound) => ~last.envelope.success

\* add_document was called with a user_id and no document, and the call
\* returned the error envelope
C21_Witness ==
  /\ last.op = "add_document"
  /\ last.user_id = BotUser
  /\ ~last.bound
  /\ ~last.raised
  /\ last.envelope = [success |-> FALSE, error |-> "str(e)", data |-> NoneData]

\* the tools that work on the store of the user_id they are given
StoreTools ==
  {"add_document", "search_documents", "update_document", "delete_document",
   "load_database", "get_database_stats", "save_documents_only"}

\* C22: when a user's snapshot file exists but cannot be read, an operation
\* for that user (one that has to load the snapshot) raises a storage error
\* that the dispatcher returns as a success=False envelope.
C22_UnreadableIsAnError ==
  [][\A u \in Users :
       (/\ disk[u].exists /\ ~disk[u].readable
        /\ rag.current_user_id # u
        /\ last'.op \in StoreTools
        /\ last'.bound
        /\ last'.user_id = u)
       => ~last'.envelope.success]_vars

\* C23: clear_background_memory deletes every document in the user's
\* long-term store: after it returns with background memory enabled, the
\* user's num_documents is 0.
C23_ClearedStoreIsEmpty ==
  (last.op = "clear_background_memory" /\ bot.enable_background_memory)
    => get_stats(rag, disk, BotUser).num_documents = 0

\* C26: the retrieved_docs stored in a turn's memory-mapping entry are the
\* documents retrieved from the long-term store before the reply to that
\* turn was generated (the set used to ground the reply), even when the
\* assistant adds, updates or deletes documents while producing the reply.
C26_StoredDocsGroundedReply ==
  (last.op = "chat" /\ last.path = "rag")
    => last.retrieved_docs = last.grounding

\* C24: set_history_length(n) applies the new limit immediately: when it
\* returns, the window holds at most n pairs, whatever the pair count was
\* before the call.
C24_NewLimitHoldsAtOnce ==
  call.op = "set_history_length" => Pairs(bot) <= bot.max_history_length

\* C25: constructing a RAGSystem with an index_type other than 'flat',
\* 'ivf' or 'hnsw' raises ValueError from the constructor, so no store
\* instance with an unknown variant exists.
C25_UnknownVariantRaises ==
  /\ (last.op = "RAGSystem" /\ last.index_type \notin {"flat", "ivf", "hnsw"})
       => last.raised
  /\ rag.index_type \in {"flat", "ivf", "hnsw"}
  /\ \A u \in Users : disk[u].db_data.index_type \in {"flat", "ivf", "hnsw"}

\* a constructor call with an unknown variant has raised, and the store
\* in use afterwards has documents
C25_Witness ==
  /\ last.op = "RAGSystem"
  /\ last.index_type = UnknownIndexType
  /\ last.raised
  /\ disk[BotUser].exists
  /\ Len(disk[BotUser].db_data.documents) > 0

\* C27: with background memory enabled, every user turn that trimming
\* removes from the window has been forwarded to consolidation before it is
\* removed, in any session reachable by chat, load_session,
\* clear_conversation and set_history_length calls.
C27_TrimmedWereForwarded ==
  [][(Checks /\ bot.enable_background_memory)
       => (Range(UserTurns(Checked.conversation_history))
             \ Range(UserTurns(bot'.conversation_history)))
          \subseteq Range(Messages(forwarded'))]_vars

\* C28: on an exact (flat) store reached by any sequence of add_document,
\* update_document and delete_document calls, search(query, k) with k >= 1
\* returns exactly min(k, num_documents) results with pairwise distinct
\* doc_ids, each paired with that document's current text, in descending
\* order of score.
C28_ExactSearchReturnsMinK ==
  (rag.index_type = "flat" /\ rag.current_user_id = "A") =>
    \A query \in Texts, top_k \in 1..MaxTopK :
      \A res \in search(rag, disk, "A", query, top_k) :
        /\ Len(res) = Min(top_k, Len(rag.documents))
        /\ \A i, j \in DOMAIN res : i # j => res[i].doc_id # res[j].doc_id
        /\ \A i \in DOMAIN res :
             res[i].document = DictGet(rag.documents, res[i].doc_id)
        /\ \A i, j \in DOMAIN res : i < j => res[i].score >= res[j].score

\* C29: when calls run one at a time, alternating calls for users A and B
\* on one RAGSystem instance never lose or mix data: after switching to B
\* and back to A, A's documents, metadata and counter equal what they were
\* after A's last mutating call, and no document of B appears in A's search
\* results; for every index variant.  Stated at the step that switches away
\* from a user u: what a switch back would load (no call for another user
\* writes u's snapshot) is what the instance held for u, and a search for u
\* returns documents of that store only.
C29_SwitchingKeepsData ==
  [][\A u \in Users :
       (rag.current_user_id = u /\ rag'.current_user_id \in Users \ {u})
       => /\ _ensure_user_database(rag', disk', u).documents = rag.documents
          /\ _ensure_user_database(rag', disk', u).metadata = rag.metadata
          /\ _ensure_user_database(rag', disk', u).doc_counter = rag.doc_counter
          /\ \A query \in TextsOfSpec :
               \A res \in search(rag', disk', u, query, MaxTopK) :
                 \A i \in DOMAIN res :
                   /\ res[i].doc_id \in KeySet(rag.documents)
                   /\ res[i].document = DictGet(rag.documents, res[i].doc_id)]_vars

\* C30: if writing the snapshot fails during add_document, update_document
\* or delete_document, the call raises and the store's in-memory documents,
\* metadata, counter and index are the same as before the call, so memory
\* and the last written snapshot still agree.  A mutating call whose
\* arguments bound raises only when its write fails; "before the call" is
\* the store of the call's user as _ensure_user_database loads it.
C30_FailedWriteChangesNothing ==
  [][(last'.op \in Mutating /\ last'.bound /\ ~last'.envelope.success)
       => /\ rag'.documents =
               _ensure_user_database(rag, disk, last'.user_id).documents
          /\ rag'.metadata =
               _ensure_user_database(rag, disk, last'.user_id).metadata
          /\ rag'.doc_counter =
               _ensure_user_database(rag, disk, last'.user_id).doc_counter
          /\ rag'.index =
               _ensure_user_database(rag, disk, last'.user_id).index]_vars

\* what update_document(doc_id, new_document, new_metadata) may change
\* between the store s0 it found and the store s1 it left
OnlyDocumentChanged(s0, s1, doc_id, new_metadata) ==
  /\ Keys(s1.documents) = Keys(s0.documents)
  /\ Keys(s1.metadata) = Keys(s0.metadata)
  /\ s1.doc_counter = s0.doc_counter
  /\ \A other \in KeySet(s0.documents) \ {doc_id} :
       /\ DictGet(s1.documents, other) = DictGet(s0.documents, other)
       /\ DictGet(s1.metadata, other) = DictGet(s0.metadata, other)
  /\ new_metadata = None =>
       DictGet(s1.metadata, doc_id) = DictGet(s0.metadata, doc_id)

\* C34: update_document on an existing doc_id leaves the set and iteration
\* order of doc_ids, the counter, and every other document's text and
\* metadata unchanged; when new_metadata is omitted, the document's own
\* metadata is unchanged as well.  For every store the calls reach, every
\* user, and every update of a document that user's store holds.
C34_UpdateChangesOneDocument ==
  \A user_id \in Users, doc_id \in 0..(MaxAdds - 1),
     new_document \in TextsOfSpec, new_metadata \in MetaArgs :
    doc_id \in KeySet(_ensure_user_database(rag, disk, user_id).documents)
      => /\ update_document(rag, disk, user_id, doc_id, new_document,
                            new_metadata).ret
         /\ OnlyDocumentChanged(
              _ensure_user_database(rag, disk, user_id),
              update_document(rag, disk, user_id, doc_id, new_document,
                              new_metadata).rag,
              doc_id, new_metadata)

\* an update of the first of two documents has returned True and the
\* document holds the new text
C34_Witness ==
  /\ last.op = "update_document" /\ last.ok
  /\ Len(rag.documents) = 2
  /\ Keys(rag.documents)[1] = last.doc_id
  /\ DictGet(rag.documents, last.doc_id) = last.document
  /\ DictGet(rag.documents, Keys(rag.documents)[2]) # last.document

\* C35: a database created for a previously unseen user uses the index
\* variant the RAGSystem instance was constructed with, whatever variant
\* the snapshot of the previously loaded user had.  At a call for a user
\* who is not the current one and has no snapshot file, the store left
\* behind is of the variant the constructor was given, and after a search
\* its index is the empty index of that variant.
C35_NewUserGetsConstructedVariant ==
  [][(/\ last'.op \in {"add_document", "search"}
      /\ rag.current_user_id # last'.user_id
      /\ ~disk[last'.user_id].exists)
       => /\ rag'.index_type = built
          /\ last'.op = "search" => rag'.index = _create_index(built)]_vars

\* C37: after every RAGChatBot.chat(user_message) call, the bot's
\* conversation_history contains user_message as a user turn placed before
\* the assistant reply to it, whether or not the assistant invoked tools in
\* that call.  The reply of a call that returned is the last message.
C37_UserTurnBeforeReply ==
  (call.op = "rag_chat" /\ ~call.raised) =>
    /\ assistant.conversation_history # <<>>
    /\ assistant.conversation_history[Len(assistant.conversation_history)]
         = Turn("assistant", call.user_message, <<>>, 0)
    /\ \E i \in 1..(Len(assistant.conversation_history) - 1) :
         assistant.conversation_history[i] = Turn("user", call.user_message, <<>>, 0)

\* C33: for any store state, including an empty store, save_documents_only
\* followed by load_documents_only on the returned path yields exactly the
\* current doc_id -> text mapping, and through the dispatcher the load
\* reports loaded=True with num_documents equal to the store's document
\* count.  In every state the calls reach, for a save that succeeds.
C33_ExportRoundTrip ==
  \A saved \in {execute_tool_on(rag, disk, "save_documents_only",
                                [user_id |-> BotUser])} :
    saved.envelope.success =>
      \A loaded \in {execute_tool_on(saved.rag, saved.disk, "load_documents_only",
                       [file_path |-> saved.envelope.data.file_path])} :
        /\ load_documents_only(saved.disk, saved.envelope.data.file_path)
             = [is_none |-> FALSE, documents |-> saved.rag.documents]
        /\ loaded.envelope.success
        /\ loaded.envelope.data.loaded
        /\ loaded.envelope.data.num_documents = Len(saved.rag.documents)

C31_OnePairOneEntry ==
  [][(call'.op = "chat" /\ ~call'.raised)
       => bot' = _manage_conversation_history(
                   [bot EXCEPT
                      !.conversation_history =
                         @ \o <<[role |-> "user", content |-> call'.user_message],
                                [role |-> "assistant",
                                 content |-> call'.user_message]>>,
                      !.message_memory_mapping = Append(@, call'.user_message)],
                   0).bot]_vars

C36_ForwardsBeforeTrimAndReturn ==
  [][/\ forwarded' # forwarded
          => /\ call.pc = "managing" /\ call'.pc = "managing"
             /\ Pairs(bot) >= bot.max_working_length
             /\ bot' = bot
             /\ evicted' = evicted
             /\ turns' = turns
     /\ call'.pc \in {"returning", "idle"} => call'.pending = <<>>
     /\ bot'.conversation_history # bot.conversation_history
          /\ call.pc = "managing"
          => call.pending = <<>>]_vars

\* a chat call has returned after forwarding two messages and trimming them
C36_Witness ==
  /\ call.op = "chat"
  /\ call.pc = "idle"
  /\ Len(call.calls) = 2
  /\ \A i \in 1..2 : ~call.calls[i].raised
                       /\ call.calls[i].user_message \in evicted
  /\ Pairs(bot) = bot.max_history_length

====
